---- MODULE Spec2Model ----
(***************************************************************************)
(* A model of jamdict: the document parsers (jmdict.py, kanjidic2.py), the *)
(* relational mappers (jmdict_sqlite.py, jmnedict_sqlite.py,               *)
(* kanjidic2_sqlite.py), the lookup engine (util.py) with its iterator     *)
(* variant, and the component index (krad.py), alone and under threads.    *)
(*                                                                         *)
(* Texts that the program inspects character by character (written forms,  *)
(* glosses, identifiers, queries) are sequences of one-character strings.  *)
(* The Japanese characters are written in ASCII: "o" is the hiragana o,    *)
(* "ge", "mi", "ya" are hiragana, "ka" is a katakana, "tsuchi" and "san"   *)
(* are the kanji of o-miyage, "ko" is a kanji without a character record.  *)
(* Coded fields that are only copied (info, pri, pos, ...) are strings.    *)
(*                                                                         *)
(* Python values whose type varies at run time are tagged records:         *)
(* [str |-> s], [int |-> n], [bool |-> b], [list |-> l], [row |-> r].      *)
(***************************************************************************)
EXTENDS Integers, Sequences, FiniteSets, TLC

\* Number of XML elements the parser reads for one top-level record.
MaxNodes == 4

-----------------------------------------------------------------------------
(* Python values *)

PyStr(s) == [str |-> s]
PyInt(n) == [int |-> n]
PyBool(b) == [bool |-> b]
PyList(l) == [list |-> l]

IsStr(x) == DOMAIN x = {"str"}
IsInt(x) == DOMAIN x = {"int"}
IsBool(x) == DOMAIN x = {"bool"}

\* The number a Python bool or int stands for in a comparison (True == 1).
PyNum(x) == IF IsBool(x) THEN (IF x.bool THEN 1 ELSE 0) ELSE x.int

\* Python's == on values that are str, int or bool.
PyEq(x, y) ==
    IF IsStr(x) \/ IsStr(y)
    THEN IsStr(x) /\ IsStr(y) /\ x.str = y.str
    ELSE PyNum(x) = PyNum(y)

Digit == <<"0", "1", "2", "3", "4", "5", "6", "7", "8", "9">>
IsDigit(c) == \E i \in 1..10 : Digit[i] = c
DigitVal(c) == (CHOOSE i \in 1..10 : Digit[i] = c) - 1

\* True when int(s) succeeds on a string of plain decimal digits with an
\* optional leading minus sign.
IntParses(s) ==
    \/ Len(s) > 0 /\ \A i \in 1..Len(s) : IsDigit(s[i])
    \/ Len(s) > 1 /\ s[1] = "-" /\ \A i \in 2..Len(s) : IsDigit(s[i])

RECURSIVE DigitsVal(_)
DigitsVal(s) ==
    IF s = <<>> THEN 0 ELSE 10 * DigitsVal(SubSeq(s, 1, Len(s) - 1)) + DigitVal(s[Len(s)])

\* int(s) where IntParses(s).
ParseInt(s) == IF s[1] = "-" THEN 0 - DigitsVal(Tail(s)) ELSE DigitsVal(s)

RECURSIVE Concat(_)
Concat(ss) == IF ss = <<>> THEN <<>> ELSE Head(ss) \o Concat(Tail(ss))

Range(s) == {s[i] : i \in 1..Len(s)}

-----------------------------------------------------------------------------
(* Entity model: jmdict.py *)

\* None
NoObj == [none |-> TRUE]

JMDEntry(idseq) ==
    [idseq |-> idseq, kanji_forms |-> <<>>, kana_forms |-> <<>>, info |-> <<>>, senses |-> <<>>]

KanjiForm(text) == [text |-> text, info |-> <<>>, pri |-> <<>>]

KanaForm(text, nokanji) ==
    [text |-> text, nokanji |-> nokanji, restr |-> <<>>, info |-> <<>>, pri |-> <<>>]

EntryInfo == [links |-> <<>>, bibinfo |-> <<>>, etym |-> <<>>, audit |-> <<>>]

Link(tag, desc, uri) == [tag |-> tag, desc |-> desc, uri |-> uri]

BibInfo(tag, text) == [tag |-> tag, text |-> text]

Audit(upd_date, upd_detl) == [upd_date |-> upd_date, upd_detl |-> upd_detl]

Sense ==
    [kind |-> "Sense", stagk |-> <<>>, stagr |-> <<>>, pos |-> <<>>, xref |-> <<>>,
     antonym |-> <<>>, field |-> <<>>, misc |-> <<>>, info |-> <<>>, lsource |-> <<>>,
     dialect |-> <<>>, gloss |-> <<>>, examples |-> <<>>]

Translation ==
    [kind |-> "Translation", stagk |-> <<>>, stagr |-> <<>>, pos |-> <<>>, xref |-> <<>>,
     antonym |-> <<>>, field |-> <<>>, misc |-> <<>>, info |-> <<>>, lsource |-> <<>>,
     dialect |-> <<>>, gloss |-> <<>>, examples |-> <<>>, name_type |-> <<>>]

SenseGloss(lang, gend, text) == [lang |-> lang, gend |-> gend, text |-> text]

LSource(lang, lstype, wasei, text) ==
    [lang |-> lang, lstype |-> lstype, wasei |-> wasei, text |-> text]

\* JMENDICT_TYPE_MAP_DECODE: the human description of a name type to its code.
JMENDICT_TYPE_MAP_DECODE(text) ==
    CASE text = "family or surname" -> "surname"
      [] text = "place name" -> "place"
      [] OTHER -> text

-----------------------------------------------------------------------------
(* Input alphabets of the parsers *)

\* Text of coded and free-text leaf elements.
Text == {"a", "b"}
\* Text of ent_seq elements.
IdText == {<<"1">>, <<"2">>}
\* Text of keb, reb and gloss/trans_det elements.
KebText == {<<"tsuchi">>, <<"o", "san">>}
RebText == {<<"o">>, <<"ge", "o">>}
GlossText == {<<"d">>, <<"D", "o">>}
\* Text of name_type elements: descriptions of the type table and a raw code.
NameTypeText == {"family or surname", "place name", "surname"}
\* Attribute values; "absent" stands for an element without the attribute.
LangAttr == {"absent", "fre"}
GendAttr == {"absent", "f"}
LsTypeAttr == {"absent", "part"}
WaseiAttr == {"absent", "y"}

\* The children of a links element: every arrangement of at most three of
\* link_tag, link_desc, link_uri elements, a tag possibly repeated.
LinkChild == {[tag |-> "link_tag", text |-> "a"], [tag |-> "link_desc", text |-> "b"],
              [tag |-> "link_uri", text |-> "a"], [tag |-> "link_uri", text |-> "b"]}
LinkChildren == UNION {[1..n -> LinkChild] : n \in 0..3}

-----------------------------------------------------------------------------
(* State *)

VARIABLES
    pc,       \* where the parser or the mapper stands
    entry,    \* the JMDEntry being built by parse_entry_tag, then the parsed entry
    sub,      \* the object built by the parse function of a child element
    sub2,     \* the BibInfo built by parse_bibinfo inside parse_info
    tagattr,  \* the xml:lang attribute of the element being parsed
    char,     \* the Character being built by parse_char, then the parsed character
    nodes,    \* elements read so far for this record
    db,       \* the relational store: one sequence of rows per table, in rowid order
    out,      \* the value returned by the last read operation
    files,    \* the XML documents on disk, as the parsers read them
    krad_map, \* KRad.__krad_map: None, or the components of each character
    radk_map, \* KRad.__radk_map: None, or the characters of each component
    log,      \* the messages handed to logging.warning and getLogger().warning
    call,     \* the operation and the arguments of the last call
    it,       \* the iterator of the running for loop over a sequence of the result
    yielded,  \* per sequence of the result: the elements produced so far, the loops begun
    threads,  \* per thread: its position in the property it reads, its locals, its result
    lock,     \* the holder of KRad.lock, 0 when it is free
    jam_krad, \* Jamdict.__krad_map: 0 for None, or the number of the KRad object
    runs      \* how often the body of each lazy initializer has run

vars == <<pc, entry, sub, sub2, tagattr, char, nodes, db, out, files, krad_map, radk_map, log,
          call, it, yielded, threads, lock, jam_krad, runs>>

\* get_attrib: the attribute's value, or default_value when it is absent.
get_attrib(attr, default_value) == IF attr = "absent" THEN default_value ELSE attr

Raise == /\ pc' = "error"
         /\ UNCHANGED <<entry, sub, sub2, tagattr, log>>

-----------------------------------------------------------------------------
(* JMDictXMLParser: one action per parse function; a step is one iteration  *)
(* of the function's loop over the children, or the end of the loop.        *)

\* parse_entry_tag: dispatch on the child's tag, or return the entry.
parse_entry_tag ==
    /\ pc = "entry"
    /\ \/ /\ pc' = "parsed"
          /\ UNCHANGED <<entry, sub, sub2, tagattr, nodes>>
       \/ /\ nodes < MaxNodes
          /\ nodes' = nodes + 1
          /\ \/ /\ pc' = "k_ele"
                /\ sub' = KanjiForm(<<>>)
                /\ UNCHANGED <<entry, sub2, tagattr>>
             \/ /\ pc' = "r_ele"
                /\ sub' = KanaForm(<<>>, PyBool(FALSE))
                /\ UNCHANGED <<entry, sub2, tagattr>>
             \/ /\ pc' = "info"
                /\ sub' = EntryInfo
                /\ UNCHANGED <<entry, sub2, tagattr>>
             \/ /\ pc' = "sense"
                /\ sub' = Sense
                /\ UNCHANGED <<entry, sub2, tagattr>>
             \/ /\ \E lang \in LangAttr : tagattr' = lang
                /\ pc' = "trans"
                /\ sub' = Translation
                /\ UNCHANGED <<entry, sub2>>
             \/ Raise   \* any other tag: "Invalid tag"
    /\ UNCHANGED <<char, db, out, files, it, yielded, threads, lock, jam_krad, runs, krad_map, radk_map, log, call>>

\* parse_ent_seq: an ent_seq child of the entry.
parse_ent_seq ==
    /\ pc = "entry"
    /\ nodes < MaxNodes
    /\ nodes' = nodes + 1
    /\ \E text \in IdText :
          IF entry.idseq # PyStr(<<>>)
          THEN Raise
          ELSE /\ entry' = [entry EXCEPT !.idseq = PyStr(text)]
               /\ UNCHANGED <<pc, sub, sub2, tagattr>>
    /\ UNCHANGED <<char, db, out, files, it, yielded, threads, lock, jam_krad, runs, krad_map, radk_map, log, call>>

\* parse_k_ele: keb sets the text (set_text only warns when it is already
\* set), ke_inf and ke_pri append, any other tag raises.
parse_k_ele ==
    /\ pc = "k_ele"
    /\ \/ /\ entry' = [entry EXCEPT !.kanji_forms = Append(@, sub)]
          /\ pc' = "entry"
          /\ sub' = NoObj
          /\ UNCHANGED <<sub2, tagattr, nodes, log>>
       \/ /\ nodes < MaxNodes
          /\ nodes' = nodes + 1
          /\ \/ /\ \E text \in KebText : sub' = [sub EXCEPT !.text = text]
                /\ log' = IF sub.text # <<>>
                          THEN log \cup {"WARNING: duplicated text for k_ele"} ELSE log
                /\ UNCHANGED <<pc, entry, sub2, tagattr>>
             \/ /\ \E text \in Text : sub' = [sub EXCEPT !.info = Append(@, text)]
                /\ UNCHANGED <<pc, entry, sub2, tagattr, log>>
             \/ /\ \E text \in Text : sub' = [sub EXCEPT !.pri = Append(@, text)]
                /\ UNCHANGED <<pc, entry, sub2, tagattr, log>>
             \/ Raise
    /\ UNCHANGED <<char, db, out, files, it, yielded, threads, lock, jam_krad, runs, krad_map, radk_map, call>>

\* parse_r_ele: reb, re_nokanji, re_restr, re_inf, re_pri.
parse_r_ele ==
    /\ pc = "r_ele"
    /\ \/ /\ entry' = [entry EXCEPT !.kana_forms = Append(@, sub)]
          /\ pc' = "entry"
          /\ sub' = NoObj
          /\ UNCHANGED <<sub2, tagattr, nodes, log>>
       \/ /\ nodes < MaxNodes
          /\ nodes' = nodes + 1
          /\ \/ /\ \E text \in RebText : sub' = [sub EXCEPT !.text = text]
                /\ log' = IF sub.text # <<>>
                          THEN log \cup {"WARNING: duplicated text for k_ele"} ELSE log
                /\ UNCHANGED <<pc, entry, sub2, tagattr>>
             \/ /\ sub' = [sub EXCEPT !.nokanji = PyBool(TRUE)]
                /\ UNCHANGED <<pc, entry, sub2, tagattr, log>>
             \/ /\ \E text \in Text : sub' = [sub EXCEPT !.restr = Append(@, text)]
                /\ UNCHANGED <<pc, entry, sub2, tagattr, log>>
             \/ /\ \E text \in Text : sub' = [sub EXCEPT !.info = Append(@, text)]
                /\ UNCHANGED <<pc, entry, sub2, tagattr, log>>
             \/ /\ \E text \in Text : sub' = [sub EXCEPT !.pri = Append(@, text)]
                /\ UNCHANGED <<pc, entry, sub2, tagattr, log>>
             \/ Raise
    /\ UNCHANGED <<char, db, out, files, it, yielded, threads, lock, jam_krad, runs, krad_map, radk_map, call>>

\* parse_info: bibl opens parse_bibinfo, etym appends its text, audit calls
\* parse_audit, which JMDictXMLParser does not define (AttributeError); the
\* end of the loop is entry.set_info(einfo), which replaces a previous info.
parse_info ==
    /\ pc = "info"
    /\ \/ /\ entry' = [entry EXCEPT !.info = <<sub>>]
          /\ log' = IF entry.info # <<>> THEN log \cup {"WARNING: multiple info tag"} ELSE log
          /\ pc' = "entry"
          /\ sub' = NoObj
          /\ UNCHANGED <<sub2, tagattr, nodes>>
       \/ /\ nodes < MaxNodes
          /\ nodes' = nodes + 1
          /\ \/ /\ pc' = "bibl"
                /\ sub2' = BibInfo("", "")
                /\ UNCHANGED <<entry, sub, tagattr, log>>
             \/ /\ \E text \in Text : sub' = [sub EXCEPT !.etym = Append(@, PyStr(text))]
                /\ UNCHANGED <<pc, entry, sub2, tagattr, log>>
             \/ Raise   \* audit, or an unknown tag
    /\ UNCHANGED <<char, db, out, files, it, yielded, threads, lock, jam_krad, runs, krad_map, radk_map, call>>

\* get_single(tag_name, a_tag): "none" when no child has the tag, "many"
\* when several have it (an Exception), else the child's text.
get_single(tag_name, children) ==
    LET found == SelectSeq(children, LAMBDA c : c.tag = tag_name)
    IN  IF Len(found) = 0 THEN [res |-> "none"]
        ELSE IF Len(found) > 1 THEN [res |-> "many"]
        ELSE [res |-> "one", text |-> found[1].text]

\* parse_link: a links child of info, read at once through get_single;
\* None.text (a missing child) and a repeated child both raise.
parse_link ==
    /\ pc = "info"
    /\ nodes < MaxNodes
    /\ nodes' = nodes + 1
    /\ \E children \in LinkChildren :
          LET tag == get_single("link_tag", children)
              desc == get_single("link_desc", children)
              uri == get_single("link_uri", children)
          IN  IF tag.res = "one" /\ desc.res = "one" /\ uri.res = "one"
              THEN /\ sub' = [sub EXCEPT !.links = Append(@, Link(tag.text, desc.text, uri.text))]
                   /\ UNCHANGED <<pc, entry, sub2, tagattr>>
              ELSE Raise
    /\ UNCHANGED <<char, db, out, files, it, yielded, threads, lock, jam_krad, runs, krad_map, radk_map, log, call>>

\* parse_bibinfo: bib_tag and bib_txt set the fields (set_tag and set_text
\* warn and overwrite), any other tag raises.
parse_bibinfo ==
    /\ pc = "bibl"
    /\ \/ /\ sub' = [sub EXCEPT !.bibinfo = Append(@, sub2)]
          /\ pc' = "info"
          /\ sub2' = NoObj
          /\ UNCHANGED <<entry, tagattr, nodes, log>>
       \/ /\ nodes < MaxNodes
          /\ nodes' = nodes + 1
          /\ \/ /\ \E text \in Text : sub2' = [sub2 EXCEPT !.tag = text]
                /\ log' = IF sub2.tag # ""
                          THEN log \cup {"WARNING: duplicate tag in bibinfo"} ELSE log
                /\ UNCHANGED <<pc, entry, sub, tagattr>>
             \/ /\ \E text \in Text : sub2' = [sub2 EXCEPT !.text = text]
                /\ log' = IF sub2.text # ""
                          THEN log \cup {"WARNING: duplicate text in bibinfo"} ELSE log
                /\ UNCHANGED <<pc, entry, sub, tagattr>>
             \/ Raise
    /\ UNCHANGED <<char, db, out, files, it, yielded, threads, lock, jam_krad, runs, krad_map, radk_map, call>>

\* parse_ne_translation: name_type is decoded through the type table,
\* trans_det becomes a SenseGloss whose lang is read from the trans element,
\* xref appends.
parse_ne_translation ==
    /\ pc = "trans"
    /\ \/ /\ entry' = [entry EXCEPT !.senses = Append(@, sub)]
          /\ pc' = "entry"
          /\ sub' = NoObj
          /\ tagattr' = "absent"
          /\ UNCHANGED <<sub2, nodes>>
       \/ /\ nodes < MaxNodes
          /\ nodes' = nodes + 1
          /\ \/ /\ \E text \in NameTypeText :
                      sub' = [sub EXCEPT !.name_type = Append(@, JMENDICT_TYPE_MAP_DECODE(text))]
                /\ UNCHANGED <<pc, entry, sub2, tagattr>>
             \/ /\ \E text \in GlossText :
                      sub' = [sub EXCEPT !.gloss =
                                 Append(@, SenseGloss(get_attrib(tagattr, "eng"), "", text))]
                /\ UNCHANGED <<pc, entry, sub2, tagattr>>
             \/ /\ \E text \in Text : sub' = [sub EXCEPT !.xref = Append(@, text)]
                /\ UNCHANGED <<pc, entry, sub2, tagattr>>
             \/ Raise
    /\ UNCHANGED <<char, db, out, files, it, yielded, threads, lock, jam_krad, runs, krad_map, radk_map, log, call>>

\* The list a simple child of sense is appended to.
SenseListTags ==
    {"stagk", "stagr", "pos", "xref", "antonym", "field", "misc", "info", "dialect", "examples"}

\* parse_sense: the ten list-valued children, or the end of the loop;
\* lsource and gloss are parse_lsource and parse_sensegloss.
parse_sense ==
    /\ pc = "sense"
    /\ \/ /\ entry' = [entry EXCEPT !.senses = Append(@, sub)]
          /\ pc' = "entry"
          /\ sub' = NoObj
          /\ UNCHANGED <<sub2, tagattr, nodes>>
       \/ /\ nodes < MaxNodes
          /\ nodes' = nodes + 1
          /\ \/ /\ \E f \in SenseListTags, text \in Text : sub' = [sub EXCEPT ![f] = Append(@, text)]
                /\ UNCHANGED <<pc, entry, sub2, tagattr>>
             \/ Raise
    /\ UNCHANGED <<char, db, out, files, it, yielded, threads, lock, jam_krad, runs, krad_map, radk_map, log, call>>

\* parse_sensegloss: a gloss child of sense.
parse_sensegloss ==
    /\ pc = "sense"
    /\ nodes < MaxNodes
    /\ nodes' = nodes + 1
    /\ \E lang \in LangAttr, gend \in GendAttr, text \in GlossText :
          sub' = [sub EXCEPT !.gloss =
                     Append(@, SenseGloss(get_attrib(lang, ""), get_attrib(gend, ""), text))]
    /\ UNCHANGED <<pc, entry, sub2, tagattr, char, db, out, files, it, yielded, threads, lock, jam_krad, runs, krad_map, radk_map, log, call>>

\* parse_lsource: an lsource child of sense.
parse_lsource ==
    /\ pc = "sense"
    /\ nodes < MaxNodes
    /\ nodes' = nodes + 1
    /\ \E lang \in LangAttr, lstype \in LsTypeAttr, wasei \in WaseiAttr, text \in Text :
          sub' = [sub EXCEPT !.lsource =
                     Append(@, LSource(get_attrib(lang, ""), get_attrib(lstype, ""),
                                       get_attrib(wasei, ""), text))]
    /\ UNCHANGED <<pc, entry, sub2, tagattr, char, db, out, files, it, yielded, threads, lock, jam_krad, runs, krad_map, radk_map, log, call>>

ParseEntry ==
    \/ parse_entry_tag \/ parse_ent_seq \/ parse_k_ele \/ parse_r_ele \/ parse_info
    \/ parse_link \/ parse_bibinfo \/ parse_ne_translation \/ parse_sense
    \/ parse_sensegloss \/ parse_lsource

-----------------------------------------------------------------------------
(* The relational store.  A table is the sequence of its rows in rowid     *)
(* order; a select without ORDER BY returns the matching rows in that      *)
(* order.  An autoincrement ID is the row's position in its table.         *)

\* The tables of JMDictSchema, JMNEDictSchema and KanjiDic2Schema.
TableNames ==
    {"meta", "Entry", "Link", "Bib", "Etym", "Audit", "Kanji", "KJI", "KJP", "Kana", "KNI",
     "KNP", "KNR", "Sense", "stagk", "stagr", "pos", "xref", "antonym", "field", "misc",
     "SenseInfo", "SenseSource", "dialect", "SenseGloss",
     "NEEntry", "NEKanji", "NEKana", "NETranslation", "NETransType", "NETransXRef",
     "NETransGloss",
     "character", "codepoint", "radical", "stroke_miscount", "variant", "rad_name", "dic_ref",
     "query_code", "nanori", "rm_group", "reading", "meaning"}

\* The value an idseq column holds for a bound parameter: the column has
\* INTEGER affinity, so a text of digits is stored, and compared, as a number.
Affinity(v) == IF IsStr(v) /\ IntParses(v.str) THEN PyInt(ParseInt(v.str)) ELSE v

\* The value sqlite3 stores for a Python bool: an integer.
Adapt(v) == IF IsBool(v) THEN PyInt(PyNum(v)) ELSE v

\* table.select('<col>=?', (v,)): the rows whose column equals v.
Where(table, col, v) == SelectSeq(table, LAMBDA r : r[col] = v)

\* The values of one column of a row list.
Col(rows, col) == [i \in 1..Len(rows) |-> rows[i][col]]

\* The rows of a (fk, text) child table for the list field f of the parents,
\* the parent at position i having the surrogate id base + i.
TextRows(parents, base, fk, f) ==
    Concat([i \in 1..Len(parents) |->
              [j \in 1..Len(parents[i][f]) |-> (fk :> (base + i)) @@ ("text" :> parents[i][f][j])]])

\* insert_entry with a context, as the new contents of the tables.
InsertEntry(d, e) ==
    LET id == Affinity(e.idseq)
        hasinfo == e.info # <<>>
        info == IF hasinfo THEN e.info[1] ELSE EntryInfo
        kb == Len(d.Kanji)
        nb == Len(d.Kana)
        sb == Len(d.Sense)
        kj == e.kanji_forms
        kn == e.kana_forms
        ss == e.senses
    IN  [d EXCEPT
          !.Entry = Append(@, [idseq |-> id]),
          !.Link = @ \o [i \in 1..Len(info.links) |->
                           [ID |-> Len(d.Link) + i, idseq |-> id, tag |-> info.links[i].tag,
                            desc |-> info.links[i].desc, uri |-> info.links[i].uri]],
          !.Bib = @ \o [i \in 1..Len(info.bibinfo) |->
                          [ID |-> Len(d.Bib) + i, idseq |-> id, tag |-> info.bibinfo[i].tag,
                           text |-> info.bibinfo[i].text]],
          !.Etym = @ \o [i \in 1..Len(info.etym) |-> [idseq |-> id, text |-> info.etym[i].str]],
          !.Audit = @ \o [i \in 1..Len(info.audit) |->
                            [idseq |-> id, upd_date |-> info.audit[i].upd_date,
                             upd_detl |-> info.audit[i].upd_detl]],
          !.Kanji = @ \o [i \in 1..Len(kj) |-> [ID |-> kb + i, idseq |-> id, text |-> kj[i].text]],
          !.KJI = @ \o TextRows(kj, kb, "kid", "info"),
          !.KJP = @ \o TextRows(kj, kb, "kid", "pri"),
          !.Kana = @ \o [i \in 1..Len(kn) |->
                           [ID |-> nb + i, idseq |-> id, text |-> kn[i].text,
                            nokanji |-> Adapt(kn[i].nokanji)]],
          !.KNI = @ \o TextRows(kn, nb, "kid", "info"),
          !.KNP = @ \o TextRows(kn, nb, "kid", "pri"),
          !.KNR = @ \o TextRows(kn, nb, "kid", "restr"),
          !.Sense = @ \o [i \in 1..Len(ss) |-> [ID |-> sb + i, idseq |-> id]],
          !.stagk = @ \o TextRows(ss, sb, "sid", "stagk"),
          !.stagr = @ \o TextRows(ss, sb, "sid", "stagr"),
          !.pos = @ \o TextRows(ss, sb, "sid", "pos"),
          !.xref = @ \o TextRows(ss, sb, "sid", "xref"),
          !.antonym = @ \o TextRows(ss, sb, "sid", "antonym"),
          !.field = @ \o TextRows(ss, sb, "sid", "field"),
          !.misc = @ \o TextRows(ss, sb, "sid", "misc"),
          !.SenseInfo = @ \o TextRows(ss, sb, "sid", "info"),
          !.SenseSource = @ \o Concat([i \in 1..Len(ss) |->
                              [j \in 1..Len(ss[i].lsource) |->
                                 [sid |-> sb + i, text |-> ss[i].lsource[j].text,
                                  lang |-> ss[i].lsource[j].lang,
                                  lstype |-> ss[i].lsource[j].lstype,
                                  wasei |-> ss[i].lsource[j].wasei]]]),
          !.dialect = @ \o TextRows(ss, sb, "sid", "dialect"),
          !.SenseGloss = @ \o Concat([i \in 1..Len(ss) |->
                              [j \in 1..Len(ss[i].gloss) |->
                                 [sid |-> sb + i, lang |-> ss[i].gloss[j].lang,
                                  gend |-> ss[i].gloss[j].gend,
                                  text |-> ss[i].gloss[j].text]]])]

\* get_entry with a context.  The identifier of the result is the argument
\* as it was passed; an etym item is the selected row, not its text.
GetEntry(d, idseq) ==
    LET id == Affinity(idseq)
        dblinks == Where(d.Link, "idseq", id)
        dbbibs == Where(d.Bib, "idseq", id)
        dbetym == Where(d.Etym, "idseq", id)
        dbaudit == Where(d.Audit, "idseq", id)
        kanjis == Where(d.Kanji, "idseq", id)
        kanas == Where(d.Kana, "idseq", id)
        senses == Where(d.Sense, "idseq", id)
        S(t, i) == Col(Where(d[t], "sid", senses[i].ID), "text")
    IN  [idseq |-> idseq,
         info |-> IF Len(dblinks) + Len(dbbibs) + Len(dbetym) + Len(dbaudit) > 0
                  THEN << [links |-> [i \in 1..Len(dblinks) |->
                                        Link(dblinks[i].tag, dblinks[i].desc, dblinks[i].uri)],
                           bibinfo |-> [i \in 1..Len(dbbibs) |->
                                          BibInfo(dbbibs[i].tag, dbbibs[i].text)],
                           etym |-> [i \in 1..Len(dbetym) |-> [row |-> dbetym[i]]],
                           audit |-> [i \in 1..Len(dbaudit) |->
                                        Audit(dbaudit[i].upd_date, dbaudit[i].upd_detl)]] >>
                  ELSE <<>>,
         kanji_forms |-> [i \in 1..Len(kanjis) |->
                            [text |-> kanjis[i].text,
                             info |-> Col(Where(d.KJI, "kid", kanjis[i].ID), "text"),
                             pri |-> Col(Where(d.KJP, "kid", kanjis[i].ID), "text")]],
         kana_forms |-> [i \in 1..Len(kanas) |->
                           [text |-> kanas[i].text,
                            nokanji |-> kanas[i].nokanji,
                            restr |-> Col(Where(d.KNR, "kid", kanas[i].ID), "text"),
                            info |-> Col(Where(d.KNI, "kid", kanas[i].ID), "text"),
                            pri |-> Col(Where(d.KNP, "kid", kanas[i].ID), "text")]],
         senses |-> [i \in 1..Len(senses) |->
                       [kind |-> "Sense",
                        stagk |-> S("stagk", i), stagr |-> S("stagr", i), pos |-> S("pos", i),
                        xref |-> S("xref", i), antonym |-> S("antonym", i),
                        field |-> S("field", i), misc |-> S("misc", i),
                        info |-> S("SenseInfo", i),
                        lsource |-> LET lss == Where(d.SenseSource, "sid", senses[i].ID)
                                    IN  [j \in 1..Len(lss) |->
                                           LSource(lss[j].lang, lss[j].lstype, lss[j].wasei,
                                                   lss[j].text)],
                        dialect |-> S("dialect", i),
                        gloss |-> LET gs == Where(d.SenseGloss, "sid", senses[i].ID)
                                  IN  [j \in 1..Len(gs) |->
                                         SenseGloss(gs[j].lang, gs[j].gend, gs[j].text)],
                        examples |-> <<>>]]]

\* insert_name_entity with a context; it reads name_type of every sense, so
\* it is defined for entries whose senses are Translations.
InsertNameEntity(d, e) ==
    LET id == Affinity(e.idseq)
        tb == Len(d.NETranslation)
        ss == e.senses
    IN  [d EXCEPT
          !.NEEntry = Append(@, [idseq |-> id]),
          !.NEKanji = @ \o [i \in 1..Len(e.kanji_forms) |->
                              [ID |-> Len(d.NEKanji) + i, idseq |-> id,
                               text |-> e.kanji_forms[i].text]],
          !.NEKana = @ \o [i \in 1..Len(e.kana_forms) |->
                             [ID |-> Len(d.NEKana) + i, idseq |-> id,
                              text |-> e.kana_forms[i].text,
                              nokanji |-> Adapt(e.kana_forms[i].nokanji)]],
          !.NETranslation = @ \o [i \in 1..Len(ss) |-> [ID |-> tb + i, idseq |-> id]],
          !.NETransType = @ \o TextRows(ss, tb, "tid", "name_type"),
          !.NETransXRef = @ \o TextRows(ss, tb, "tid", "xref"),
          !.NETransGloss = @ \o Concat([i \in 1..Len(ss) |->
                               [j \in 1..Len(ss[i].gloss) |->
                                  [tid |-> tb + i, lang |-> ss[i].gloss[j].lang,
                                   gend |-> ss[i].gloss[j].gend,
                                   text |-> ss[i].gloss[j].text]]])]

\* get_ne with a context.
GetNe(d, idseq) ==
    LET id == Affinity(idseq)
        kanjis == Where(d.NEKanji, "idseq", id)
        kanas == Where(d.NEKana, "idseq", id)
        senses == Where(d.NETranslation, "idseq", id)
    IN  [idseq |-> idseq,
         info |-> <<>>,
         kanji_forms |-> [i \in 1..Len(kanjis) |-> KanjiForm(kanjis[i].text)],
         kana_forms |-> [i \in 1..Len(kanas) |-> KanaForm(kanas[i].text, kanas[i].nokanji)],
         senses |-> [i \in 1..Len(senses) |->
                       [Translation EXCEPT
                          !.name_type = Col(Where(d.NETransType, "tid", senses[i].ID), "text"),
                          !.xref = Col(Where(d.NETransXRef, "tid", senses[i].ID), "text"),
                          !.gloss = LET gs == Where(d.NETransGloss, "tid", senses[i].ID)
                                    IN  [j \in 1..Len(gs) |->
                                           SenseGloss(gs[j].lang, gs[j].gend, gs[j].text)]]]]

-----------------------------------------------------------------------------
(* The store as JamdictSQLite creates it, and a store that holds records    *)

\* The meta rows written by SETUP_SCRIPT, JMNEDICT_SETUP_SCRIPT and
\* KANJIDIC2_SETUP_SCRIPT when the store is created.
SetupMeta ==
    << [key |-> "jmdict.version", value |-> "1.08"],
       [key |-> "jmdict.url", value |-> "http://www.csse.monash.edu.au/~jwb/edict.html"],
       [key |-> "generator", value |-> "jamdict"],
       [key |-> "generator_version", value |-> "version"],
       [key |-> "generator_url", value |-> "url"],
       [key |-> "jmnedict.version", value |-> "1.08"],
       [key |-> "jmnedict.url", value |-> "https://www.edrdg.org/enamdict/enamdict_doc.html"],
       [key |-> "jmnedict.date", value |-> "2020-05-29"],
       [key |-> "kanjidic2.version", value |-> "1.6"],
       [key |-> "kanjidic2.url", value |-> "https://www.edrdg.org/wiki/index.php/KANJIDIC_Project"],
       [key |-> "kanjidic2.date", value |-> "April 2008"] >>

EmptyDB == [t \in TableNames |-> IF t = "meta" THEN SetupMeta ELSE <<>>]

\* A word entry and a name entry with the identifier 2, as the parser builds them.
OtherEntry ==
    [idseq |-> PyStr(<<"2">>),
     kanji_forms |-> << [text |-> <<"o", "san">>, info |-> <<"b">>, pri |-> <<"a">>] >>,
     kana_forms |-> << [text |-> <<"o">>, nokanji |-> PyBool(FALSE), restr |-> <<"b">>,
                        info |-> <<"b">>, pri |-> <<"b">>] >>,
     info |-> << [EntryInfo EXCEPT !.links = <<Link("a", "b", "a")>>,
                                   !.bibinfo = <<BibInfo("b", "a")>>,
                                   !.etym = <<PyStr("b")>>] >>,
     senses |-> << [Sense EXCEPT !.stagk = <<"b">>, !.stagr = <<"b">>, !.pos = <<"b">>,
                                 !.xref = <<"b">>, !.antonym = <<"b">>, !.field = <<"b">>,
                                 !.misc = <<"b">>, !.info = <<"b">>, !.dialect = <<"b">>,
                                 !.lsource = <<LSource("", "", "", "b")>>,
                                 !.gloss = <<SenseGloss("", "", <<"d">>)>>] >>]

OtherName ==
    [idseq |-> PyStr(<<"2">>),
     kanji_forms |-> <<KanjiForm(<<"tsuchi">>)>>,
     kana_forms |-> <<KanaForm(<<"o">>, PyBool(FALSE))>>,
     info |-> <<>>,
     senses |-> << [Translation EXCEPT !.name_type = <<"place">>, !.xref = <<"b">>,
                                       !.gloss = <<SenseGloss("eng", "", <<"d">>)>>] >>]

OtherDB == InsertNameEntity(InsertEntry(EmptyDB, OtherEntry), OtherName)

-----------------------------------------------------------------------------
(* Mapper operations on the parsed entry *)

\* insert_entry(entry, ctx)
insert_entry ==
    /\ pc = "parsed"
    /\ db' = InsertEntry(db, entry)
    /\ pc' = "inserted"
    /\ UNCHANGED <<entry, sub, sub2, tagattr, char, nodes, out, files, it, yielded, threads, lock, jam_krad, runs, krad_map, radk_map, log, call>>

\* get_entry(entry.idseq, ctx)
get_entry ==
    /\ pc = "inserted"
    /\ out' = GetEntry(db, entry.idseq)
    /\ pc' = "read"
    /\ UNCHANGED <<entry, sub, sub2, tagattr, char, nodes, db, files, it, yielded, threads, lock, jam_krad, runs, krad_map, radk_map, log, call>>

IsTranslation(s) == s.kind = "Translation"

\* The entry cut before its first sense that is no Translation, and whether
\* there is such a sense.
BeforeFirstSense(e) ==
    LET bad == {i \in 1..Len(e.senses) : ~IsTranslation(e.senses[i])}
        k == IF bad = {} THEN Len(e.senses) + 1 ELSE CHOOSE i \in bad : \A j \in bad : i <= j
    IN  [e EXCEPT !.senses = SubSeq(@, 1, k - 1)]

\* insert_name_entity(entry, ctx): a sense without name_type raises
\* AttributeError after its NETranslation row was inserted.
insert_name_entity ==
    /\ pc = "parsed"
    /\ IF \A i \in 1..Len(entry.senses) : IsTranslation(entry.senses[i])
       THEN /\ db' = InsertNameEntity(db, entry)
            /\ pc' = "ne_inserted"
       ELSE /\ db' = LET d == InsertNameEntity(db, BeforeFirstSense(entry))
                     IN  [d EXCEPT !.NETranslation =
                             Append(@, [ID |-> Len(d.NETranslation) + 1,
                                        idseq |-> Affinity(entry.idseq)])]
            /\ pc' = "error"
    /\ UNCHANGED <<entry, sub, sub2, tagattr, char, nodes, out, files, it, yielded, threads, lock, jam_krad, runs, krad_map, radk_map, log, call>>

\* get_ne(entry.idseq, ctx)
get_ne ==
    /\ pc = "ne_inserted"
    /\ out' = GetNe(db, entry.idseq)
    /\ pc' = "ne_read"
    /\ UNCHANGED <<entry, sub, sub2, tagattr, char, nodes, db, files, it, yielded, threads, lock, jam_krad, runs, krad_map, radk_map, log, call>>

InitEntry ==
    /\ pc = "entry"
    /\ entry = JMDEntry(PyStr(<<>>))
    /\ sub = NoObj
    /\ sub2 = NoObj
    /\ tagattr = "absent"
    /\ char = NoObj
    /\ nodes = 0
    /\ db \in {EmptyDB, OtherDB}
    /\ out = NoObj
    /\ files = NoObj
    /\ krad_map = NoObj
    /\ radk_map = NoObj
    /\ log = {}
    /\ it = NoObj
    /\ yielded = NoObj
    /\ threads = NoObj
    /\ lock = 0
    /\ jam_krad = 0
    /\ runs = NoObj
    /\ call = [op |-> "none"]

NextEntry == ParseEntry \/ insert_entry \/ get_entry \/ insert_name_entity \/ get_ne

\* Parsing one entry of a document, inserting it and reading it back.
SpecEntry == InitEntry /\ [][NextEntry]_vars

-----------------------------------------------------------------------------
(* Entity model: kanjidic2.py.  A field that is None or a str is NoObj or   *)
(* [str |-> s]; one that is None or an int is NoObj or [int |-> n].         *)

Character ==
    [ID |-> NoObj, literal |-> PyStr(""), codepoints |-> <<>>, radicals |-> <<>>,
     stroke_count |-> NoObj, grade |-> NoObj, stroke_miscounts |-> <<>>, variants |-> <<>>,
     freq |-> NoObj, rad_names |-> <<>>, jlpt |-> NoObj, dic_refs |-> <<>>,
     query_codes |-> <<>>, rm_groups |-> <<>>, nanoris |-> <<>>]

CodePoint(cp_type, value) == [cid |-> NoObj, cp_type |-> cp_type, value |-> value]

Radical(rad_type, value) == [cid |-> NoObj, rad_type |-> rad_type, value |-> value]

Variant(var_type, value) == [cid |-> NoObj, var_type |-> var_type, value |-> value]

DicRef(dr_type, value, m_vol, m_page) ==
    [cid |-> NoObj, dr_type |-> dr_type, value |-> value, m_vol |-> m_vol, m_page |-> m_page]

QueryCode(qc_type, value, skip_misclass) ==
    [cid |-> NoObj, qc_type |-> qc_type, value |-> value, skip_misclass |-> skip_misclass]

RMGroup == [ID |-> NoObj, cid |-> NoObj, readings |-> <<>>, meanings |-> <<>>]

Reading(r_type, value, on_type, r_status) ==
    [gid |-> NoObj, r_type |-> r_type, value |-> value, on_type |-> on_type,
     r_status |-> r_status]

Meaning(value, m_lang) == [gid |-> NoObj, m_lang |-> m_lang, value |-> value]

\* Python's truth value of None, a str or an int.
Truthy(v) == v # NoObj /\ v # PyStr("") /\ v # PyInt(0)

\* Character.to_json with the to_json of the nested objects.
CharJson(c) ==
    [literal |-> c.literal,
     codepoints |-> [i \in 1..Len(c.codepoints) |->
                       [type |-> c.codepoints[i].cp_type, value |-> c.codepoints[i].value]],
     radicals |-> [i \in 1..Len(c.radicals) |->
                     [type |-> c.radicals[i].rad_type, value |-> c.radicals[i].value]],
     stroke_count |-> c.stroke_count,
     grade |-> IF Truthy(c.grade) THEN c.grade ELSE PyStr(""),
     stroke_miscounts |-> c.stroke_miscounts,
     variants |-> [i \in 1..Len(c.variants) |->
                     [type |-> c.variants[i].var_type, value |-> c.variants[i].value]],
     freq |-> IF Truthy(c.freq) THEN c.freq ELSE PyInt(0),
     rad_names |-> c.rad_names,
     jlpt |-> IF Truthy(c.jlpt) THEN c.jlpt ELSE PyStr(""),
     dic_refs |-> [i \in 1..Len(c.dic_refs) |->
                     [type |-> c.dic_refs[i].dr_type, value |-> c.dic_refs[i].value,
                      m_vol |-> c.dic_refs[i].m_vol, m_page |-> c.dic_refs[i].m_page]],
     q_codes |-> [i \in 1..Len(c.query_codes) |->
                    [type |-> c.query_codes[i].qc_type, value |-> c.query_codes[i].value,
                     skip_misclass |-> c.query_codes[i].skip_misclass]],
     rm |-> [i \in 1..Len(c.rm_groups) |->
               [readings |-> [j \in 1..Len(c.rm_groups[i].readings) |->
                                [type |-> c.rm_groups[i].readings[j].r_type,
                                 value |-> c.rm_groups[i].readings[j].value,
                                 on_type |-> c.rm_groups[i].readings[j].on_type,
                                 r_status |-> c.rm_groups[i].readings[j].r_status]],
                meanings |-> [j \in 1..Len(c.rm_groups[i].meanings) |->
                                [m_lang |-> c.rm_groups[i].meanings[j].m_lang,
                                 value |-> c.rm_groups[i].meanings[j].value]]]],
     nanoris |-> c.nanoris]

-----------------------------------------------------------------------------
(* Input alphabets of the character parser *)

\* Text of literal elements: the two kanji that have a character record.
LiteralText == {"tsuchi", "san"}
\* Text of stroke_count elements: two numbers and a text int() rejects.
StrokeText == {<<"3">>, <<"1", "1">>, <<"x">>}
\* r_type attributes: an on-reading, a kun-reading, a reading of another language.
RTypeAttr == {"ja_on", "ja_kun", "pinyin"}
\* Pairs of optional attributes of one element (on_type and r_status of a
\* reading, m_vol and m_page of a dic_ref).
AttrPair == {<<"absent", "absent">>, <<"a", "absent">>, <<"a", "b">>}
TypeAttr == {"absent", "a"}

-----------------------------------------------------------------------------
(* Kanjidic2XMLParser: one action per parse function; a step is one        *)
(* iteration of the function's loop over the children, or the end of the   *)
(* loop.  An unknown tag is logged and skipped.                            *)

\* getLogger().warning(...): the element is skipped.
Warn(message) == UNCHANGED <<pc, char>> /\ log' = log \cup {message}

\* parse_char: dispatch on the child's tag, or return the character.
parse_char ==
    /\ pc = "char"
    /\ \/ /\ pc' = "char_parsed"
          /\ UNCHANGED <<char, nodes, log>>
       \/ /\ nodes < MaxNodes
          /\ nodes' = nodes + 1
          /\ \/ /\ \E text \in LiteralText : char' = [char EXCEPT !.literal = PyStr(text)]
                /\ UNCHANGED <<pc, log>>
             \/ /\ pc' \in {"codepoint", "radical", "misc", "dic_number", "query_code",
                            "reading_meaning"}
                /\ UNCHANGED <<char, log>>
             \/ Warn("Unknown tag in child")
    /\ UNCHANGED <<entry, sub, sub2, tagattr, db, out, files, it, yielded, threads, lock, jam_krad, runs, krad_map, radk_map, call>>

\* parse_codepoint: the cp_value children of a codepoint element.
parse_codepoint ==
    /\ pc = "codepoint"
    /\ \/ /\ pc' = "char"
          /\ UNCHANGED <<char, nodes, log>>
       \/ /\ nodes < MaxNodes
          /\ nodes' = nodes + 1
          /\ \/ /\ \E cp_type \in TypeAttr, text \in Text :
                      char' = [char EXCEPT !.codepoints =
                                  Append(@, CodePoint(get_attrib(cp_type, ""), text))]
                /\ UNCHANGED <<pc, log>>
             \/ Warn("Unknown tag")
    /\ UNCHANGED <<entry, sub, sub2, tagattr, db, out, files, it, yielded, threads, lock, jam_krad, runs, krad_map, radk_map, call>>

\* parse_radical: the rad_value children of a radical element.
parse_radical ==
    /\ pc = "radical"
    /\ \/ /\ pc' = "char"
          /\ UNCHANGED <<char, nodes, log>>
       \/ /\ nodes < MaxNodes
          /\ nodes' = nodes + 1
          /\ \/ /\ \E rad_type \in TypeAttr, text \in Text :
                      char' = [char EXCEPT !.radicals =
                                  Append(@, Radical(get_attrib(rad_type, ""), text))]
                /\ UNCHANGED <<pc, log>>
             \/ Warn("Unknown tag")
    /\ UNCHANGED <<entry, sub, sub2, tagattr, db, out, files, it, yielded, threads, lock, jam_krad, runs, krad_map, radk_map, call>>

\* parse_misc: grade, stroke_count (the first is the count, the others are
\* miscounts; int() raises on a text that is no number), variant, freq,
\* rad_name, jlpt.
parse_misc ==
    /\ pc = "misc"
    /\ \/ /\ pc' = "char"
          /\ UNCHANGED <<char, nodes, log>>
       \/ /\ nodes < MaxNodes
          /\ nodes' = nodes + 1
          /\ \/ /\ \E text \in Text : char' = [char EXCEPT !.grade = PyStr(text)]
                /\ UNCHANGED <<pc, log>>
             \/ \E text \in StrokeText :
                   IF ~IntParses(text)
                   THEN pc' = "error" /\ UNCHANGED <<char, log>>
                   ELSE /\ char' = IF char.stroke_count = NoObj
                                   THEN [char EXCEPT !.stroke_count = PyInt(ParseInt(text))]
                                   ELSE [char EXCEPT !.stroke_miscounts =
                                            Append(@, ParseInt(text))]
                        /\ UNCHANGED <<pc, log>>
             \/ /\ \E var_type \in TypeAttr, text \in Text :
                      char' = [char EXCEPT !.variants =
                                  Append(@, Variant(get_attrib(var_type, ""), text))]
                /\ UNCHANGED <<pc, log>>
             \/ /\ \E text \in Text : char' = [char EXCEPT !.freq = PyStr(text)]
                /\ UNCHANGED <<pc, log>>
             \/ /\ \E text \in Text : char' = [char EXCEPT !.rad_names = Append(@, text)]
                /\ UNCHANGED <<pc, log>>
             \/ /\ \E text \in Text : char' = [char EXCEPT !.jlpt = PyStr(text)]
                /\ UNCHANGED <<pc, log>>
             \/ Warn("Unknown tag")
    /\ UNCHANGED <<entry, sub, sub2, tagattr, db, out, files, it, yielded, threads, lock, jam_krad, runs, krad_map, radk_map, call>>

\* parse_dic_refs: the dic_ref children of a dic_number element.
parse_dic_refs ==
    /\ pc = "dic_number"
    /\ \/ /\ pc' = "char"
          /\ UNCHANGED <<char, nodes, log>>
       \/ /\ nodes < MaxNodes
          /\ nodes' = nodes + 1
          /\ \/ /\ \E dr_type \in TypeAttr, text \in Text, m \in AttrPair :
                      char' = [char EXCEPT !.dic_refs =
                                  Append(@, DicRef(get_attrib(dr_type, ""), text,
                                                   get_attrib(m[1], ""), get_attrib(m[2], "")))]
                /\ UNCHANGED <<pc, log>>
             \/ Warn("Unknown tag")
    /\ UNCHANGED <<entry, sub, sub2, tagattr, db, out, files, it, yielded, threads, lock, jam_krad, runs, krad_map, radk_map, call>>

\* parse_query_code: the q_code children of a query_code element.
parse_query_code ==
    /\ pc = "query_code"
    /\ \/ /\ pc' = "char"
          /\ UNCHANGED <<char, nodes, log>>
       \/ /\ nodes < MaxNodes
          /\ nodes' = nodes + 1
          /\ \/ /\ \E qc_type \in TypeAttr, text \in Text, skip_misclass \in TypeAttr :
                      char' = [char EXCEPT !.query_codes =
                                  Append(@, QueryCode(get_attrib(qc_type, ""), text,
                                                      get_attrib(skip_misclass, "")))]
                /\ UNCHANGED <<pc, log>>
             \/ Warn("Unknown tag")
    /\ UNCHANGED <<entry, sub, sub2, tagattr, db, out, files, it, yielded, threads, lock, jam_krad, runs, krad_map, radk_map, call>>

\* parse_reading_meaning: nanori and rmgroup children; inside an rmgroup,
\* which is the last group of the character, its reading and meaning children.
parse_reading_meaning ==
    /\ \/ /\ pc = "reading_meaning"
          /\ \/ /\ pc' = "char"
                /\ UNCHANGED <<char, nodes, log>>
             \/ /\ nodes < MaxNodes
                /\ nodes' = nodes + 1
                /\ \/ /\ \E text \in Text :
                            char' = [char EXCEPT !.nanoris = Append(@, text)]
                      /\ UNCHANGED <<pc, log>>
                   \/ /\ char' = [char EXCEPT !.rm_groups = Append(@, RMGroup)]
                      /\ pc' = "rmgroup"
                      /\ UNCHANGED log
                   \/ Warn("Unknown tag")
       \/ /\ pc = "rmgroup"
          /\ \/ /\ pc' = "reading_meaning"
                /\ UNCHANGED <<char, nodes, log>>
             \/ /\ nodes < MaxNodes
                /\ nodes' = nodes + 1
                /\ \/ /\ \E r_type \in RTypeAttr, text \in Text, a \in AttrPair :
                            char' = [char EXCEPT !.rm_groups[Len(char.rm_groups)].readings =
                                        Append(@, Reading(get_attrib(r_type, ""), text,
                                                          get_attrib(a[1], ""),
                                                          get_attrib(a[2], "")))]
                      /\ UNCHANGED <<pc, log>>
                   \/ /\ \E text \in Text, m_lang \in LangAttr :
                            char' = [char EXCEPT !.rm_groups[Len(char.rm_groups)].meanings =
                                        Append(@, Meaning(text, get_attrib(m_lang, "")))]
                      /\ UNCHANGED <<pc, log>>
                   \/ Warn("Unknown tag")
    /\ UNCHANGED <<entry, sub, sub2, tagattr, db, out, files, it, yielded, threads, lock, jam_krad, runs, krad_map, radk_map, call>>

ParseChar ==
    \/ parse_char \/ parse_codepoint \/ parse_radical \/ parse_misc \/ parse_dic_refs
    \/ parse_query_code \/ parse_reading_meaning

-----------------------------------------------------------------------------
(* KanjiDic2SQLite.  A column of the character tables holds the value      *)
(* written to it with its type, as test_xml2sqlite requires of the texts   *)
(* and numbers that the parser produces.                                   *)

\* table.save(obj) for each object of a list: the objects with their foreign
\* key set, which are also the rows written.
WithKey(objs, fk, id) == [i \in 1..Len(objs) |-> [objs[i] EXCEPT ![fk] = id]]

\* table.insert(cid, value) for each value of a list: the rows written.
ValueRows(values, id) == [i \in 1..Len(values) |-> [cid |-> id, value |-> values[i]]]

\* The character row that ctx.character.save(c) writes.
CharRow(c, id) ==
    [ID |-> id, literal |-> c.literal, stroke_count |-> c.stroke_count, grade |-> c.grade,
     freq |-> c.freq, jlpt |-> c.jlpt]

\* The character as insert_char leaves it: ID, the cid of its codepoints,
\* radicals, variants, dic_refs, query_codes and groups, the ID of each
\* group and the gid of each reading and meaning are set.
SavedChar(d, c) ==
    LET id == PyInt(Len(d.character) + 1)
        base == Len(d.rm_group)
    IN  [c EXCEPT !.ID = id,
                  !.codepoints = WithKey(@, "cid", id),
                  !.radicals = WithKey(@, "cid", id),
                  !.variants = WithKey(@, "cid", id),
                  !.dic_refs = WithKey(@, "cid", id),
                  !.query_codes = WithKey(@, "cid", id),
                  !.rm_groups = [i \in 1..Len(c.rm_groups) |->
                      [ID |-> PyInt(base + i), cid |-> id,
                       readings |-> WithKey(c.rm_groups[i].readings, "gid", PyInt(base + i)),
                       meanings |-> WithKey(c.rm_groups[i].meanings, "gid", PyInt(base + i))]]]

\* insert_char(c, ctx) for a character without ID: the store afterwards.
InsertChar(d, c) ==
    LET s == SavedChar(d, c)
    IN  [d EXCEPT
           !.character = Append(@, CharRow(c, s.ID)),
           !.codepoint = @ \o s.codepoints,
           !.radical = @ \o s.radicals,
           !.stroke_miscount = @ \o ValueRows(c.stroke_miscounts, s.ID),
           !.variant = @ \o s.variants,
           !.rad_name = @ \o ValueRows(c.rad_names, s.ID),
           !.dic_ref = @ \o s.dic_refs,
           !.query_code = @ \o s.query_codes,
           !.nanori = @ \o ValueRows(c.nanoris, s.ID),
           !.rm_group = @ \o [i \in 1..Len(s.rm_groups) |->
                                [ID |-> s.rm_groups[i].ID, cid |-> s.rm_groups[i].cid]],
           !.reading = @ \o Concat([i \in 1..Len(s.rm_groups) |-> s.rm_groups[i].readings]),
           !.meaning = @ \o Concat([i \in 1..Len(s.rm_groups) |-> s.rm_groups[i].meanings])]

\* char_by_id selecting the readings and meanings of a group by the
\* character's ID instead of the group's.
CharByIdGroupKey(d, cid) ==
    LET c == Where(d.character, "ID", cid)[1]
        groups == Where(d.rm_group, "cid", cid)
    IN  [ID |-> c.ID, literal |-> c.literal, stroke_count |-> c.stroke_count,
         grade |-> c.grade, freq |-> c.freq, jlpt |-> c.jlpt,
         codepoints |-> Where(d.codepoint, "cid", cid),
         radicals |-> Where(d.radical, "cid", cid),
         stroke_miscounts |-> Col(Where(d.stroke_miscount, "cid", cid), "value"),
         variants |-> Where(d.variant, "cid", cid),
         rad_names |-> Col(Where(d.rad_name, "cid", cid), "value"),
         dic_refs |-> Where(d.dic_ref, "cid", cid),
         query_codes |-> Where(d.query_code, "cid", cid),
         nanoris |-> Col(Where(d.nanori, "cid", cid), "value"),
         rm_groups |-> [i \in 1..Len(groups) |->
                          [ID |-> groups[i].ID, cid |-> groups[i].cid,
                           readings |-> Where(d.reading, "gid", cid),
                           meanings |-> Where(d.meaning, "gid", cid)]]]

\* char_by_id(cid, ctx) for the ID of a stored character.
CharById(d, cid) ==
    LET c == Where(d.character, "ID", cid)[1]
        groups == Where(d.rm_group, "cid", cid)
    IN  [ID |-> c.ID, literal |-> c.literal, stroke_count |-> c.stroke_count,
         grade |-> c.grade, freq |-> c.freq, jlpt |-> c.jlpt,
         codepoints |-> Where(d.codepoint, "cid", cid),
         radicals |-> Where(d.radical, "cid", cid),
         stroke_miscounts |-> Col(Where(d.stroke_miscount, "cid", cid), "value"),
         variants |-> Where(d.variant, "cid", cid),
         rad_names |-> Col(Where(d.rad_name, "cid", cid), "value"),
         dic_refs |-> Where(d.dic_ref, "cid", cid),
         query_codes |-> Where(d.query_code, "cid", cid),
         nanoris |-> Col(Where(d.nanori, "cid", cid), "value"),
         rm_groups |-> [i \in 1..Len(groups) |->
                          [ID |-> groups[i].ID, cid |-> groups[i].cid,
                           readings |-> Where(d.reading, "gid", groups[i].ID),
                           meanings |-> Where(d.meaning, "gid", groups[i].ID)]]]

\* get_char(literal, ctx): None when no character row has the literal.
GetChar(d, literal) ==
    LET found == Where(d.character, "literal", PyStr(literal))
    IN  IF found = <<>> THEN NoObj ELSE CharById(d, found[1].ID)

-----------------------------------------------------------------------------
(* Mapper operations on the parsed character *)

\* A character as the parser builds it, with every list filled.
OtherChar ==
    [Character EXCEPT
       !.literal = PyStr("san"),
       !.codepoints = <<CodePoint("a", "b"), CodePoint("", "a")>>,
       !.radicals = <<Radical("a", "b")>>,
       !.stroke_count = PyInt(11),
       !.grade = PyStr("b"),
       !.stroke_miscounts = <<3>>,
       !.variants = <<Variant("a", "b")>>,
       !.freq = PyStr("b"),
       !.rad_names = <<"b">>,
       !.jlpt = PyStr("b"),
       !.dic_refs = <<DicRef("a", "b", "a", "b")>>,
       !.query_codes = <<QueryCode("a", "b", "a")>>,
       !.rm_groups = << [RMGroup EXCEPT !.readings = <<Reading("ja_on", "b", "a", "b")>>],
                        [RMGroup EXCEPT !.readings = <<Reading("ja_kun", "b", "", "")>>,
                                        !.meanings = <<Meaning("b", ""),
                                                       Meaning("b", "fre")>>] >>,
       !.nanoris = <<"b">>]

\* insert_char(char, ctx): the character gets its ID.
insert_char ==
    /\ pc = "char_parsed"
    /\ db' = InsertChar(db, char)
    /\ char' = SavedChar(db, char)
    /\ call' = [op |-> "insert_char", c |-> char]
    /\ pc' = "char_inserted"
    /\ UNCHANGED <<entry, sub, sub2, tagattr, nodes, out, files, it, yielded, threads, lock, jam_krad, runs, krad_map, radk_map, log>>

\* char_by_id(char.ID, ctx)
char_by_id ==
    /\ pc = "char_inserted"
    /\ out' = CharById(db, char.ID)
    /\ pc' = "char_read"
    /\ UNCHANGED <<entry, sub, sub2, tagattr, char, nodes, db, files, it, yielded, threads, lock, jam_krad, runs, krad_map, radk_map, log, call>>

InitChar ==
    /\ pc = "char"
    /\ entry = NoObj
    /\ sub = NoObj
    /\ sub2 = NoObj
    /\ tagattr = "absent"
    /\ char = Character
    /\ nodes = 0
    /\ db \in {EmptyDB, InsertChar(EmptyDB, OtherChar)}
    /\ out = NoObj
    /\ files = NoObj
    /\ krad_map = NoObj
    /\ radk_map = NoObj
    /\ log = {}
    /\ it = NoObj
    /\ yielded = NoObj
    /\ threads = NoObj
    /\ lock = 0
    /\ jam_krad = 0
    /\ runs = NoObj
    /\ call = [op |-> "none"]

NextChar == ParseChar \/ insert_char \/ char_by_id

\* Parsing one character of a document, inserting it and reading it back.
SpecChar == InitChar /\ [][NextChar]_vars

-----------------------------------------------------------------------------
(* Text matching *)

\* str.startswith
StartsWith(s, prefix) == Len(s) >= Len(prefix) /\ SubSeq(s, 1, Len(prefix)) = prefix

\* The lower-case form of an ASCII letter, which SQLite's LIKE compares by.
Fold(c) == IF c = "D" THEN "d" ELSE c

\* text LIKE pattern in SQLite: % is any run of characters, _ is one
\* character, ASCII letters match without regard to case.
RECURSIVE Like(_, _)
Like(pattern, text) ==
    IF pattern = <<>> THEN text = <<>>
    ELSE IF Head(pattern) = "%"
         THEN Like(Tail(pattern), text) \/ (text # <<>> /\ Like(pattern, Tail(text)))
         ELSE /\ text # <<>>
              /\ Head(pattern) = "_" \/ Fold(Head(pattern)) = Fold(Head(text))
              /\ Like(Tail(pattern), Tail(text))

\* _is_wildcard_search
IsWildcardSearch(query) == \E i \in 1..Len(query) : query[i] \in {"_", "@", "%"}

\* The where clause with == for every query.
TextMatchEq(query, text) == text = query

\* text like ? or text == ?, as the where clause of the search has it.
TextMatch(query, text) == IF IsWildcardSearch(query) THEN Like(query, text) ELSE text = query

\* The query selects by identifier: it starts with id#, int() accepts the
\* rest and the number is not negative.
IsIdQuery(query) ==
    /\ StartsWith(query, <<"i", "d", "#">>)
    /\ IntParses(SubSeq(query, 4, Len(query)))
    /\ ParseInt(SubSeq(query, 4, Len(query))) >= 0

\* The text of a coded field (a name type) as the matcher sees it: the code
\* is one character.
CodeText(code) == <<code>>

-----------------------------------------------------------------------------
(* JMDictSQLite.search and JMNEDictSQLite.search_ne with a context *)

\* The idseq of the rows of a table whose text matches.
IdsByText(table, query) == {table[i].idseq : i \in {j \in 1..Len(table) : TextMatch(query, table[j].text)}}

\* SELECT idseq FROM <parent> JOIN <child> ON parent.ID == child.<fk> WHERE text matches
\* (the text of a name type row is its code, the other texts are strings).
IdsByJoin(parent, child, fk, query, coded) ==
    {parent[i].idseq : i \in {j \in 1..Len(parent) :
        \E k \in 1..Len(child) :
           /\ child[k][fk] = parent[j].ID
           /\ TextMatch(query, IF coded THEN CodeText(child[k].text) ELSE child[k].text)}}

\* search(query, ctx): the entries of the Entry rows that the where clause
\* selects, in rowid order.
Search(d, query) ==
    LET rows == IF IsIdQuery(query)
                THEN Where(d.Entry, "idseq", PyInt(ParseInt(SubSeq(query, 4, Len(query)))))
                ELSE LET ids == IdsByText(d.Kanji, query) \cup IdsByText(d.Kana, query)
                                \cup IdsByJoin(d.Sense, d.SenseGloss, "sid", query, FALSE)
                     IN  SelectSeq(d.Entry, LAMBDA r : r.idseq \in ids)
    IN  [i \in 1..Len(rows) |-> GetEntry(d, rows[i].idseq)]

\* search_ne(query, ctx): like search, over the name tables and the name types.
SearchNe(d, query) ==
    LET rows == IF IsIdQuery(query)
                THEN Where(d.NEEntry, "idseq", PyInt(ParseInt(SubSeq(query, 4, Len(query)))))
                ELSE LET ids == IdsByText(d.NEKanji, query) \cup IdsByText(d.NEKana, query)
                                \cup IdsByJoin(d.NETranslation, d.NETransGloss, "tid", query, FALSE)
                                \cup IdsByJoin(d.NETranslation, d.NETransType, "tid", query,
                                               TRUE)
                     IN  SelectSeq(d.NEEntry, LAMBDA r : r.idseq \in ids)
    IN  [i \in 1..Len(rows) |-> GetNe(d, rows[i].idseq)]

-----------------------------------------------------------------------------
(* JMDictXML and KanjiDic2XML: the indexes over parsed documents *)

\* _textmap[text]: the entries with a kana or kanji form of that text.
TextMap(entries, text) ==
    {entries[i] : i \in {j \in 1..Len(entries) :
        \/ \E k \in 1..Len(entries[j].kana_forms) : entries[j].kana_forms[k].text = text
        \/ \E k \in 1..Len(entries[j].kanji_forms) : entries[j].kanji_forms[k].text = text}}

\* _seqmap: the keys, and the entry of a key (the last one parsed).
SeqMapKeys(entries) == {entries[i].idseq.str : i \in 1..Len(entries)}
SeqMap(entries, key) ==
    LET at == {i \in 1..Len(entries) : entries[i].idseq.str = key}
    IN  entries[CHOOSE i \in at : \A j \in at : j <= i]

\* JMDictXML.lookup(a_query): the entries of the result; the tuple is
\* made from a set, in no defined order.
XmlLookup(entries, a_query) ==
    IF TextMap(entries, a_query) # {}
    THEN TextMap(entries, a_query)
    ELSE IF StartsWith(a_query, <<"i", "d", "#">>)
            /\ SubSeq(a_query, 4, Len(a_query)) \in SeqMapKeys(entries)
         THEN {SeqMap(entries, SubSeq(a_query, 4, Len(a_query)))}
         ELSE {}

\* The sequences that enumerate a set once each.
Orders(S) == {s \in [1..Cardinality(S) -> S] : \A x \in S : \E i \in DOMAIN s : s[i] = x}

\* KanjiDic2XML.lookup(char): the last character parsed with that literal, or None.
Kd2XmlLookup(chars, literal) ==
    LET at == {i \in 1..Len(chars) : chars[i].literal = PyStr(literal)}
    IN  IF at = {} THEN NoObj ELSE chars[CHOOSE i \in at : \A j \in at : j <= i]

-----------------------------------------------------------------------------
(* Jamdict (util.py).  A Jamdict is its file configuration; db is the one   *)
(* store file, files are the XML documents as parsed.                       *)

\* The kana of the model: chirptext's HIRAGANA and KATAKANA.
HIRAGANA == {"o", "ge", "mi", "ya"}
KATAKANA == {"ka"}

\* A Jamdict over the store file and the XML files, one over the XML files
\* of the words and the characters only, and one without any file.  disk is
\* the set of the configured paths that os.path.isfile finds.
JamDB ==
    [db_file |-> PyStr("db"), kd2_file |-> PyStr("db"), jmnedict_file |-> PyStr("db"),
     jmd_xml_file |-> PyStr("jmd"), kd2_xml_file |-> PyStr("kd2"),
     jmnedict_xml_file |-> PyStr("jmne"), disk |-> {"db", "jmd", "kd2", "jmne"}]
JamXML ==
    [db_file |-> NoObj, kd2_file |-> NoObj, jmnedict_file |-> NoObj,
     jmd_xml_file |-> PyStr("jmd"), kd2_xml_file |-> PyStr("kd2"),
     jmnedict_xml_file |-> NoObj, disk |-> {"jmd", "kd2"}]
JamNone ==
    [db_file |-> NoObj, kd2_file |-> NoObj, jmnedict_file |-> NoObj,
     jmd_xml_file |-> NoObj, kd2_xml_file |-> NoObj, jmnedict_xml_file |-> NoObj,
     disk |-> {}]

\* Jamdict(jmnedict_file="ne", auto_config=False) and
\* Jamdict(kd2_file="kd", auto_config=False) where the path is no file.
JamNeOnly == [JamNone EXCEPT !.jmnedict_file = PyStr("ne")]
JamKdOnly == [JamNone EXCEPT !.kd2_file = PyStr("kd")]

Jamdicts == {JamDB, JamXML, JamNone, JamNeOnly, JamKdOnly}

\* os.path.isfile of a configured path.
isfile(jam, path) == path # NoObj /\ path.str \in jam.disk

is_available(jam) ==
    \/ jam.db_file # NoObj \/ jam.jmd_xml_file # NoObj
    \/ jam.kd2_file # NoObj \/ jam.kd2_xml_file # NoObj
    \/ jam.jmnedict_file # NoObj \/ jam.jmnedict_xml_file # NoObj

\* The jmdict, kd2 and jmnedict properties are a store object or None.
jmdict(jam) == jam.db_file # NoObj
kd2(jam) ==
    \/ isfile(jam, jam.kd2_file)
    \/ (jam.kd2_file = NoObj \/ jam.kd2_file = jam.db_file) /\ jmdict(jam)
jmnedict(jam) == jam.jmnedict_file # NoObj \/ jmdict(jam)

has_kd2(jam) == jam.db_file # NoObj \/ jam.kd2_file # NoObj \/ jam.kd2_xml_file # NoObj

\* __make_db_ctx: the reused context of db_file, or None when db_file is
\* not set or is no file.
make_db_ctx(jam) == isfile(jam, jam.db_file)

\* has_jmne: the context of the store has a non-empty jmnedict.version row;
\* without a context it is False.
has_jmne(jam, d) ==
    /\ make_db_ctx(jam)
    /\ \E i \in 1..Len(d.meta) : d.meta[i].key = "jmnedict.version" /\ d.meta[i].value # ""

\* not pos, for pos None or a list.
PosIsEmpty(pos) == pos = NoObj \/ pos = PyList(<<>>)

\* The precondition without regard to pos.
QueryEmpty(query, pos) == query = <<>> \/ query = <<"%">>

\* The precondition of lookup: query and pos filter are both empty.
QueryAndPosEmpty(query, pos) == (query = <<>> \/ query = <<"%">>) /\ PosIsEmpty(pos)

\* The keys of an OrderedDict filled from a sequence: first occurrences, in order.
RECURSIVE OrderedKeys(_)
OrderedKeys(s) ==
    IF s = <<>> THEN <<>>
    ELSE LET r == OrderedKeys(SubSeq(s, 1, Len(s) - 1))
         IN  IF s[Len(s)] \in Range(r) THEN r ELSE Append(r, s[Len(s)])

\* chars_to_search with the characters of the entries before those of the
\* query.
CharsEntriesFirst(query, entries, strict_lookup) ==
    OrderedKeys(
        (IF ~strict_lookup
         THEN SelectSeq(Concat([i \in 1..Len(entries) |->
                                  Concat([k \in 1..Len(entries[i].kanji_forms) |->
                                            entries[i].kanji_forms[k].text])]),
                        LAMBDA c : c \notin HIRAGANA /\ c \notin KATAKANA)
         ELSE <<>>) \o query)

\* chars_to_search of the characters of the query alone.
CharsOfQuery(query, entries, strict_lookup) == OrderedKeys(query)

\* chars_to_search: the characters of the query, then, unless the lookup is
\* strict, the characters of the kanji forms of the entries that are no kana.
CharsToSearch(query, entries, strict_lookup) ==
    OrderedKeys(query \o
        (IF ~strict_lookup
         THEN SelectSeq(Concat([i \in 1..Len(entries) |->
                                  Concat([k \in 1..Len(entries[i].kanji_forms) |->
                                            entries[i].kanji_forms[k].text])]),
                        LAMBDA c : c \notin HIRAGANA /\ c \notin KATAKANA)
         ELSE <<>>))

\* Jamdict.get_char(literal, ctx): the character, None, or LookupError
\* when there is neither a character store nor a non-empty XML document.
get_char(jam, d, xml, literal) ==
    IF kd2(jam) THEN GetChar(d, literal)
    ELSE IF jam.kd2_xml_file # NoObj /\ Len(xml.kd2) > 0
         THEN Kd2XmlLookup(xml.kd2, literal)
         ELSE [error |-> "LookupError"]

LookupResult(entries, chars, names) ==
    [error |-> "", entries |-> entries, chars |-> chars, names |-> names]

Raised(error) == [error |-> error, entries |-> <<>>, chars |-> <<>>, names |-> <<>>]

\* The entries that lookup gets from its word backend: the store's search
\* or, without a store, the XML index in one of the orders of its result.
LookupEntries(jam, d, xml, query) ==
    IF jmdict(jam) THEN {Search(d, query)}
    ELSE IF jam.jmd_xml_file # NoObj /\ Len(xml.jmd) > 0
         THEN Orders(XmlLookup(xml.jmd, query))
         ELSE {<<>>}

\* lookup that appends every result of get_char, None included.
LookupKeepNone(jam, d, xml, a, entries) ==
    IF ~is_available(jam) THEN Raised("LookupError")
    ELSE IF QueryAndPosEmpty(a.query, a.pos) THEN Raised("ValueError")
    ELSE LET searched == IF a.lookup_chars /\ has_kd2(jam)
                         THEN CharsToSearch(a.query, entries, a.strict_lookup)
                         ELSE <<>>
             found == [i \in 1..Len(searched) |-> get_char(jam, d, xml, searched[i])]
             names == IF a.lookup_ne /\ has_jmne(jam, d) THEN SearchNe(d, a.query) ELSE <<>>
         IN  LookupResult(entries, found, names)

\* lookup(query, strict_lookup, lookup_chars, ctx, lookup_ne, pos), given
\* the entries of the word backend.  pos is passed to search, which has no
\* use for it.
Lookup(jam, d, xml, a, entries) ==
    IF ~is_available(jam) THEN Raised("LookupError")
    ELSE IF QueryAndPosEmpty(a.query, a.pos) THEN Raised("ValueError")
    ELSE LET searched == IF a.lookup_chars /\ has_kd2(jam)
                         THEN CharsToSearch(a.query, entries, a.strict_lookup)
                         ELSE <<>>
             found == [i \in 1..Len(searched) |-> get_char(jam, d, xml, searched[i])]
             names == IF a.lookup_ne /\ has_jmne(jam, d) THEN SearchNe(d, a.query) ELSE <<>>
         IN  IF \E i \in 1..Len(found) : found[i] = [error |-> "LookupError"]
             THEN Raised("LookupError")
             ELSE LookupResult(entries, SelectSeq(found, LAMBDA c : c # NoObj), names)

-----------------------------------------------------------------------------
(* The documents and the calls of the lookup model *)

\* Number of word entries in the JMdict document.
MaxEntries == 2

Omiyage ==
    [JMDEntry(PyStr(<<"1">>)) EXCEPT
       !.kanji_forms = <<KanjiForm(<<"o", "tsuchi", "san">>), KanjiForm(<<"tsuchi", "san">>)>>,
       !.kana_forms = <<KanaForm(<<"o", "mi", "ya", "ge">>, PyBool(FALSE))>>,
       !.senses = << [Sense EXCEPT !.pos = <<"n">>,
                                   !.gloss = <<SenseGloss("", "", <<"D", "o">>)>>] >>]

Oyage ==
    [JMDEntry(PyStr(<<"2">>)) EXCEPT
       !.kanji_forms = <<KanjiForm(<<"ko", "ka", "san">>)>>,
       !.kana_forms = <<KanaForm(<<"o", "ya", "ge">>, PyBool(FALSE))>>,
       !.senses = << [Sense EXCEPT !.pos = <<"v">>,
                                   !.gloss = <<SenseGloss("", "", <<"d", "o">>)>>] >>]

\* An entry whose reading is spelled like an identifier query.
IdLike ==
    [JMDEntry(PyStr(<<"3">>)) EXCEPT
       !.kana_forms = <<KanaForm(<<"i", "d", "#", "1">>, PyBool(TRUE))>>,
       !.senses = << [Sense EXCEPT !.pos = <<"n">>,
                                   !.gloss = <<SenseGloss("", "", <<"d">>)>>] >>]

\* An entry with the reading of Omiyage.
Miyage ==
    [JMDEntry(PyStr(<<"4">>)) EXCEPT
       !.kana_forms = <<KanaForm(<<"o", "mi", "ya", "ge">>, PyBool(FALSE))>>,
       !.senses = << [Sense EXCEPT !.pos = <<"n">>,
                                   !.gloss = <<SenseGloss("", "", <<"d">>)>>] >>]

Tsuchi ==
    [Character EXCEPT
       !.literal = PyStr("tsuchi"),
       !.codepoints = <<CodePoint("a", "a")>>,
       !.stroke_count = PyInt(3),
       !.rm_groups = << [RMGroup EXCEPT !.readings = <<Reading("ja_on", "a", "", "")>>,
                                        !.meanings = <<Meaning("a", "")>>] >>]

San == OtherChar

OyageName ==
    [JMDEntry(PyStr(<<"1">>)) EXCEPT
       !.kanji_forms = <<KanjiForm(<<"tsuchi">>)>>,
       !.kana_forms = <<KanaForm(<<"o", "ya", "ge">>, PyBool(FALSE))>>,
       !.senses = << [Translation EXCEPT !.name_type = <<"surname">>,
                                         !.gloss = <<SenseGloss("eng", "", <<"D", "o">>)>>] >>]

OmiyageName ==
    [JMDEntry(PyStr(<<"2">>)) EXCEPT
       !.kana_forms = <<KanaForm(<<"o", "mi", "ya", "ge">>, PyBool(FALSE))>>,
       !.senses = << [Translation EXCEPT !.name_type = <<"place">>,
                                         !.gloss = <<SenseGloss("eng", "", <<"d">>)>>] >>]

\* The JMdict documents: up to MaxEntries different entries in any order.
JmdDocs ==
    {s \in UNION {[1..n -> {Omiyage, Oyage, IdLike, Miyage}] : n \in 1..MaxEntries} :
        \A i, j \in DOMAIN s : i # j => s[i] # s[j]}

\* The documents on disk: JMdict, Kanjidic2 and JMnedict.
Files ==
    {[jmd |-> j, kd2 |-> k, jmne |-> <<OyageName, OmiyageName>>] :
        j \in JmdDocs, k \in {<<Tsuchi, San>>, <<San>>}}

\* The queries: empty, wildcards, texts of forms and glosses, identifiers,
\* identifier-like texts and a name type.
Queries ==
    {<<>>, <<"%">>, <<"o", "mi", "ya", "ge">>, <<"o", "%", "ge">>, <<"o", "?", "ge">>,
     <<"o", "_", "ge">>, <<"tsuchi", "san">>, <<"d", "%">>, <<"D", "o">>,
     <<"i", "d", "#", "1">>, <<"i", "d", "#", "9">>, <<"i", "d", "#", "x">>, <<"place">>,
     <<"%", "san">>}

\* The pos argument: None, an empty list, a list of one or two tags, a bare
\* string.
PosArgs ==
    {NoObj, PyList(<<>>), PyList(<<"n">>), PyList(<<"v">>), PyList(<<"n", "v">>),
     PyStr(<<"n">>)}

RECURSIVE InsertEntries(_, _)
InsertEntries(d, entries) ==
    IF entries = <<>> THEN d ELSE InsertEntries(InsertEntry(d, Head(entries)), Tail(entries))

RECURSIVE InsertChars(_, _)
InsertChars(d, chars) ==
    IF chars = <<>> THEN d ELSE InsertChars(InsertChar(d, Head(chars)), Tail(chars))

RECURSIVE InsertNameEntities(_, _)
InsertNameEntities(d, entries) ==
    IF entries = <<>> THEN d
    ELSE InsertNameEntities(InsertNameEntity(d, Head(entries)), Tail(entries))

\* Jamdict.import_data of the Jamdict over the store: the three documents
\* are inserted into the store.
import_data ==
    /\ pc = "new"
    /\ db' = InsertNameEntities(InsertChars(InsertEntries(db, files.jmd), files.kd2),
                                files.jmne)
    /\ pc' = "ready"
    /\ UNCHANGED <<entry, sub, sub2, tagattr, char, nodes, out, files, it, yielded, threads, lock, jam_krad, runs, krad_map, radk_map, log, call>>

\* The store after import_data on the empty store.
ImportAll(d, docs) ==
    InsertNameEntities(InsertChars(InsertEntries(d, docs.jmd), docs.kd2), docs.jmne)

\* The rows of insert_entry written when the first insert of a sense raises:
\* the Entry row, the info rows and the rows of the kanji and kana forms.
InsertEntryUntilSense(d, e) == InsertEntry(d, [e EXCEPT !.senses = <<>>])

\* import_data where an insert raises part-way: in insert_entries after k
\* entries and the first rows of the next one, or in insert_name_entities
\* after the first name.  The exception leaves import_data at once: there is
\* no handler and no rollback, ctx.commit() is not reached, and the rows
\* stay in the transaction of the reused context.
import_data_raises ==
    /\ pc = "new"
    /\ \/ \E k \in 0..(Len(files.jmd) - 1) :
             db' = InsertEntryUntilSense(InsertEntries(db, SubSeq(files.jmd, 1, k)),
                                         files.jmd[k + 1])
       \/ db' = InsertNameEntity(InsertChars(InsertEntries(db, files.jmd), files.kd2),
                                 files.jmne[1])
    /\ pc' = "failed"
    /\ call' = [op |-> "import_data"]
    /\ out' = Raised("Exception")
    /\ UNCHANGED <<entry, sub, sub2, tagattr, char, nodes, files, it, yielded, threads, lock, jam_krad, runs, krad_map, radk_map, log>>

\* Jamdict.lookup on one of the Jamdicts.  Neither lookup nor the search it
\* calls has a getLogger().warning on the path of a store that can be opened.
lookup ==
    /\ pc \in {"new", "ready", "failed"}
    /\ \E jam \in Jamdicts, query \in Queries, pos \in PosArgs,
          strict_lookup \in BOOLEAN, lookup_chars \in BOOLEAN, lookup_ne \in BOOLEAN :
          LET a == [op |-> "lookup", jam |-> jam, query |-> query,
                    strict_lookup |-> strict_lookup, lookup_chars |-> lookup_chars,
                    lookup_ne |-> lookup_ne, pos |-> pos]
          IN  /\ call' = a
              /\ \E entries \in LookupEntries(jam, db, files, query) :
                    out' = Lookup(jam, db, files, a, entries)
    /\ pc' = "done"
    /\ UNCHANGED <<entry, sub, sub2, tagattr, char, nodes, db, files, it, yielded, threads, lock, jam_krad, runs, krad_map, radk_map, log>>

\* JMDictSQLite.search(query, ctx)
search ==
    /\ pc \in {"new", "ready", "failed"}
    /\ \E query \in Queries :
          /\ call' = [op |-> "search", query |-> query]
          /\ out' = Search(db, query)
    /\ pc' = "done"
    /\ UNCHANGED <<entry, sub, sub2, tagattr, char, nodes, db, files, it, yielded, threads, lock, jam_krad, runs, krad_map, radk_map, log>>

\* JMNEDictSQLite.search_ne(query, ctx) on the JamdictSQLite: without a
\* context it opens one and returns self.search(query, ctx), the search of
\* the word store.
search_ne ==
    /\ pc \in {"new", "ready", "failed"}
    /\ \E query \in Queries, ctx \in BOOLEAN :
          /\ call' = [op |-> "search_ne", query |-> query, ctx |-> ctx]
          /\ out' = IF ctx THEN SearchNe(db, query) ELSE Search(db, query)
    /\ pc' = "done"
    /\ UNCHANGED <<entry, sub, sub2, tagattr, char, nodes, db, files, it, yielded, threads, lock, jam_krad, runs, krad_map, radk_map, log>>

\* JMDictXML.lookup(a_query) on the index of the JMdict document.
xml_lookup ==
    /\ pc \in {"new", "ready", "failed"}
    /\ \E query \in Queries :
          /\ call' = [op |-> "xml_lookup", query |-> query]
          /\ out' \in Orders(XmlLookup(files.jmd, query))
    /\ pc' = "done"
    /\ UNCHANGED <<entry, sub, sub2, tagattr, char, nodes, db, files, it, yielded, threads, lock, jam_krad, runs, krad_map, radk_map, log>>

InitLookup ==
    /\ pc = "new"
    /\ entry = NoObj
    /\ sub = NoObj
    /\ sub2 = NoObj
    /\ tagattr = "absent"
    /\ char = NoObj
    /\ nodes = 0
    /\ db = EmptyDB
    /\ out = NoObj
    /\ files \in Files
    /\ krad_map = NoObj
    /\ radk_map = NoObj
    /\ log = {}
    /\ it = NoObj
    /\ yielded = NoObj
    /\ threads = NoObj
    /\ lock = 0
    /\ jam_krad = 0
    /\ runs = NoObj
    /\ call = [op |-> "none"]

NextLookup == import_data \/ import_data_raises \/ lookup \/ search \/ search_ne \/ xml_lookup

\* One call on the store before or after the import of the documents, or on
\* the XML indexes.
SpecLookup == InitLookup /\ [][NextLookup]_vars

-----------------------------------------------------------------------------
(* lookup_iter (util.py): the result whose three sequences are iterated by  *)
(* the caller.  A sequence is a list, which every for loop reads from its   *)
(* start, or a generator, which is its own iterator and goes on where the   *)
(* last loop stopped.                                                       *)

ListSeq(items) == [gen |-> FALSE, items |-> items, next |-> 0]
Generator(items) == [gen |-> TRUE, items |-> items, next |-> 0]

\* search_iter, search_chars_iter and search_ne_iter of the stores: lazy
\* single-pass sequences of what search, get_char and search_ne find.
search_iter(d, query) == Generator(Search(d, query))
search_chars_iter(d, chars) ==
    Generator(SelectSeq([i \in 1..Len(chars) |-> GetChar(d, chars[i])],
                        LAMBDA c : c # NoObj))
search_ne_iter(d, query) == Generator(SearchNe(d, query))

\* IterLookupResult that keeps lists of what the backends produce.
IterLookupResultLists(entries, chars, names) ==
    [error |-> "",
     entries |-> IF entries = NoObj THEN ListSeq(<<>>) ELSE ListSeq(entries.items),
     chars |-> IF chars = NoObj THEN ListSeq(<<>>) ELSE ListSeq(chars.items),
     names |-> IF names = NoObj THEN ListSeq(<<>>) ELSE ListSeq(names.items)]

\* IterLookupResult(entries, chars, names): a sequence that is None is the
\* empty list.
IterLookupResult(entries, chars, names) ==
    [error |-> "",
     entries |-> IF entries = NoObj THEN ListSeq(<<>>) ELSE entries,
     chars |-> IF chars = NoObj THEN ListSeq(<<>>) ELSE chars,
     names |-> IF names = NoObj THEN ListSeq(<<>>) ELSE names]

IterRaised(error) ==
    [error |-> error, entries |-> ListSeq(<<>>), chars |-> ListSeq(<<>>),
     names |-> ListSeq(<<>>)]

\* lookup_iter(query, strict_lookup, lookup_chars, lookup_ne, ctx, pos): the
\* words come from the store only, the characters are those of the query
\* that are no kana, and self.kd2 is used whether or not it is None.
LookupIter(jam, d, a) ==
    IF ~is_available(jam) THEN IterRaised("LookupError")
    ELSE IF QueryAndPosEmpty(a.query, a.pos) THEN IterRaised("ValueError")
    ELSE IF a.lookup_chars /\ has_kd2(jam) /\ ~kd2(jam) THEN IterRaised("AttributeError")
    ELSE IterLookupResult(
            IF jmdict(jam) THEN search_iter(d, a.query) ELSE NoObj,
            IF a.lookup_chars /\ has_kd2(jam)
            THEN search_chars_iter(d, OrderedKeys(SelectSeq(a.query,
                        LAMBDA c : c \notin HIRAGANA /\ c \notin KATAKANA)))
            ELSE NoObj,
            IF a.lookup_ne /\ has_jmne(jam, d) THEN search_ne_iter(d, a.query) ELSE NoObj)

\* Number of for loops the caller runs over one sequence of a result.
MaxLoops == 2

SeqNames == {"entries", "chars", "names"}

\* res = jam.lookup_iter(query, ...)
lookup_iter ==
    /\ pc = "ready"
    /\ \E jam \in Jamdicts, query \in Queries, lookup_chars \in BOOLEAN,
          lookup_ne \in BOOLEAN :
          LET a == [op |-> "lookup_iter", jam |-> jam, query |-> query,
                    lookup_chars |-> lookup_chars, lookup_ne |-> lookup_ne, pos |-> NoObj]
          IN  /\ call' = a
              /\ out' = LookupIter(jam, db, a)
    /\ pc' = "iter"
    /\ it' = NoObj
    /\ yielded' = [w \in SeqNames |-> [items |-> <<>>, loops |-> 0]]
    /\ UNCHANGED <<entry, sub, sub2, tagattr, char, nodes, db, files, threads, lock, jam_krad, runs, krad_map, radk_map, log>>

\* for x in res.entries (or chars, or names): iter() of a list is a new
\* iterator at its start, iter() of a generator is the generator.  A loop
\* that is running is left when another one begins.
iter_begin ==
    /\ pc = "iter"
    /\ out.error = ""
    /\ \E w \in SeqNames :
          /\ yielded[w].loops < MaxLoops
          /\ it' = [over |-> w, at |-> 0]
          /\ yielded' = [yielded EXCEPT ![w].loops = @ + 1]
    /\ UNCHANGED <<pc, entry, sub, sub2, tagattr, char, nodes, db, out, files, threads, lock, jam_krad, runs, krad_map, radk_map, log, call>>

\* next() of the loop's iterator hands the next element to the loop body;
\* it.at counts the elements this loop has got.
iter_next ==
    /\ pc = "iter"
    /\ it # NoObj
    /\ LET s == out[it.over]
           i == IF s.gen THEN s.next + 1 ELSE it.at + 1
       IN  /\ i <= Len(s.items)
           /\ yielded' = [yielded EXCEPT ![it.over].items = Append(@, s.items[i])]
           /\ it' = [it EXCEPT !.at = @ + 1]
           /\ out' = IF s.gen THEN [out EXCEPT ![it.over].next = i] ELSE out
    /\ UNCHANGED <<pc, entry, sub, sub2, tagattr, char, nodes, db, files, threads, lock, jam_krad, runs, krad_map, radk_map, log, call>>

InitIter ==
    /\ pc = "ready"
    /\ entry = NoObj
    /\ sub = NoObj
    /\ sub2 = NoObj
    /\ tagattr = "absent"
    /\ char = NoObj
    /\ nodes = 0
    /\ files \in Files
    /\ db = ImportAll(EmptyDB, files)
    /\ out = NoObj
    /\ krad_map = NoObj
    /\ radk_map = NoObj
    /\ log = {}
    /\ call = [op |-> "none"]
    /\ it = NoObj
    /\ yielded = NoObj
    /\ threads = NoObj
    /\ lock = 0
    /\ jam_krad = 0
    /\ runs = NoObj

NextIter == lookup_iter \/ iter_begin \/ iter_next

\* One call of lookup_iter on a store that holds the documents, and the
\* loops of its caller over the three sequences.
SpecIter == InitIter /\ [][NextIter]_vars

-----------------------------------------------------------------------------
(* KRad (krad.py): the component index over the lines of the kradfile      *)

\* str.strip() on the left, on the right and on both sides.
RECURSIVE LStrip(_)
LStrip(s) == IF s # <<>> /\ Head(s) = " " THEN LStrip(Tail(s)) ELSE s

RECURSIVE RStrip(_)
RStrip(s) == IF s # <<>> /\ s[Len(s)] = " " THEN RStrip(SubSeq(s, 1, Len(s) - 1)) ELSE s

Strip(s) == RStrip(LStrip(s))

\* The position of the first c in s, or 0.
IndexOf(s, c) ==
    IF \E i \in 1..Len(s) : s[i] = c
    THEN CHOOSE i \in 1..Len(s) : s[i] = c /\ \A j \in 1..(i - 1) : s[j] # c
    ELSE 0

\* line.split(':', maxsplit=1)
SplitColon(line) ==
    LET i == IndexOf(line, ":")
    IN  IF i = 0 THEN <<line>>
        ELSE <<SubSeq(line, 1, i - 1), SubSeq(line, i + 1, Len(line))>>

\* str.split(): the runs of characters between white space.
RECURSIVE SplitWs(_)
SplitWs(s) ==
    LET t == LStrip(s)
        i == IndexOf(t, " ")
    IN  IF t = <<>> THEN <<>>
        ELSE IF i = 0 THEN <<t>>
        ELSE <<SubSeq(t, 1, i - 1)>> \o SplitWs(SubSeq(t, i, Len(t)))

\* A dict, and d[k] = v.
EmptyDict == [dict |-> <<>>]
Put(d, k, v) == [dict |-> [x \in (DOMAIN d.dict) \cup {k} |-> IF x = k THEN v ELSE d.dict[x]]]

\* self.__radk_map[rad].add(char_literal) for every rad of rads: a missing
\* key of the defaultdict starts as the empty set.
RECURSIVE AddToRadk(_, _, _)
AddToRadk(radk, rads, char_literal) ==
    IF rads = <<>> THEN radk
    ELSE LET rad == Head(rads)
             old == IF rad \in DOMAIN radk.dict THEN radk.dict[rad] ELSE {}
         IN  AddToRadk(Put(radk, rad, old \cup {char_literal}), Tail(rads), char_literal)

\* One line that fills the forward map alone.
AddLineKradOnly(maps, line) ==
    IF line # <<>> /\ Head(line) = "#" THEN maps
    ELSE LET parts == SplitColon(line)
         IN  IF Len(parts) # 2 THEN maps
             ELSE [krad |-> Put(maps.krad, Strip(parts[1]), SplitWs(parts[2])),
                   radk |-> maps.radk]

\* One round of the loop of _build_krad_map: a comment line and a line
\* without a colon are skipped.
AddLine(maps, line) ==
    IF line # <<>> /\ Head(line) = "#" THEN maps
    ELSE LET parts == SplitColon(line)
         IN  IF Len(parts) # 2 THEN maps
             ELSE LET rads == SplitWs(parts[2])
                      char_literal == Strip(parts[1])
                  IN  [krad |-> Put(maps.krad, char_literal, rads),
                       radk |-> AddToRadk(maps.radk, rads, char_literal)]

\* KRad._build_krad_map over the lines of the resource.
RECURSIVE build_krad_map(_)
build_krad_map(lines) ==
    IF lines = <<>> THEN [krad |-> EmptyDict, radk |-> EmptyDict]
    ELSE AddLine(build_krad_map(SubSeq(lines, 1, Len(lines) - 1)), lines[Len(lines)])

\* Number of lines of the resource.
MaxLines == 2

\* Lines of a kradfile: a comment, characters with components, a character
\* listed twice, a repeated component, a line without a colon, a line with
\* an empty character and one with a second colon.
KradLines ==
    { <<"#", " ", "X", ":", "a">>,
      <<"X", " ", ":", " ", "a", " ", "b">>,
      <<"X", ":", "b">>,
      <<"Y", " ", ":", " ", "a", " ">>,
      <<"Y", ":", "a", " ", " ", "a">>,
      <<"Y", " ", "a">>,
      <<":", "a">>,
      <<"a", ":", "b", ":", "X">> }

KradTexts == UNION {[1..n -> KradLines] : n \in 0..MaxLines}

\* The keys that are looked up.
KradKeys == {<<"X">>, <<"Y">>, <<"Z">>, <<"a">>, <<"b">>, <<>>}

\* The maps of the KRad after the property has made sure they are built.
Built == IF krad_map = NoObj THEN build_krad_map(files.kradfile)
         ELSE [krad |-> krad_map, radk |-> radk_map]

\* jam.krad[key]: KRad.krad builds the maps when there are none and returns
\* the dict, whose subscription raises KeyError for a missing key.
krad_getitem ==
    /\ pc = "krad"
    /\ \E key \in KradKeys :
          /\ call' = [op |-> "krad", key |-> key]
          /\ out' = IF key \in DOMAIN Built.krad.dict
                    THEN [list |-> Built.krad.dict[key]]
                    ELSE [error |-> "KeyError"]
    /\ krad_map' = Built.krad
    /\ radk_map' = Built.radk
    /\ UNCHANGED <<pc, entry, sub, sub2, tagattr, char, nodes, db, files, it, yielded, threads, lock, jam_krad, runs, log>>

\* jam.radk[key]: KRad.radk builds the maps when there are none and returns
\* the defaultdict, whose subscription stores an empty set under a missing
\* key and returns it.
radk_getitem ==
    /\ pc = "krad"
    /\ \E key \in KradKeys :
          /\ call' = [op |-> "radk", key |-> key]
          /\ IF key \in DOMAIN Built.radk.dict
             THEN /\ out' = [set |-> Built.radk.dict[key]]
                  /\ radk_map' = Built.radk
             ELSE /\ out' = [set |-> {}]
                  /\ radk_map' = Put(Built.radk, key, {})
    /\ krad_map' = Built.krad
    /\ UNCHANGED <<pc, entry, sub, sub2, tagattr, char, nodes, db, files, it, yielded, threads, lock, jam_krad, runs, log>>

InitKrad ==
    /\ pc = "krad"
    /\ entry = NoObj
    /\ sub = NoObj
    /\ sub2 = NoObj
    /\ tagattr = "absent"
    /\ char = NoObj
    /\ nodes = 0
    /\ db = EmptyDB
    /\ out = NoObj
    /\ files \in {[kradfile |-> t] : t \in KradTexts}
    /\ krad_map = NoObj
    /\ radk_map = NoObj
    /\ log = {}
    /\ it = NoObj
    /\ yielded = NoObj
    /\ threads = NoObj
    /\ lock = 0
    /\ jam_krad = 0
    /\ runs = NoObj
    /\ call = [op |-> "none"]

NextKrad == krad_getitem \/ radk_getitem

\* Lookups in the component index of a KRad over a kradfile.
SpecKrad == InitKrad /\ [][NextKrad]_vars

-----------------------------------------------------------------------------
(* The lazy initializers under threads: Jamdict.krad (util.py) creates the  *)
(* KRad object, KRad.krad and KRad.radk (krad.py) build the maps.  Each     *)
(* thread reads one property; a step is one test, one assignment, one       *)
(* round of the loop over the lines, or one operation on KRad.lock.         *)

Threads == {1, 2}

\* The properties a thread reads: krad of the Jamdict, krad and radk of the
\* one KRad object.
Properties == {"Jamdict.krad", "KRad.krad", "KRad.radk"}

At(t, p) == threads[t].pc = p
Goto(t, p) == [threads EXCEPT ![t].pc = p]

\* A thread starts to read a property.
thread_access ==
    /\ \E t \in Threads, op \in Properties :
          /\ At(t, "idle")
          /\ threads' = [threads EXCEPT ![t].pc = "test", ![t].op = op]
    /\ UNCHANGED <<krad_map, radk_map, lock, jam_krad, runs>>
    /\ UNCHANGED <<pc, entry, sub, sub2, tagattr, char, nodes, db, out, files, it, yielded, log, call>>

\* Jamdict.krad: if not self.__krad_map
Jamdict_krad_test ==
    /\ \E t \in Threads :
          /\ At(t, "test") /\ threads[t].op = "Jamdict.krad"
          /\ threads' = Goto(t, IF jam_krad = 0 THEN "new" ELSE "return")
    /\ UNCHANGED <<krad_map, radk_map, lock, jam_krad, runs>>
    /\ UNCHANGED <<pc, entry, sub, sub2, tagattr, char, nodes, db, out, files, it, yielded, log, call>>

\* with threading.Lock(): self.__krad_map = KRad().  The lock is a new one
\* at every evaluation, so that no thread ever waits for it.
Jamdict_krad_new ==
    /\ \E t \in Threads :
          /\ At(t, "new")
          /\ runs' = [runs EXCEPT !.KRad = @ + 1]
          /\ jam_krad' = runs'.KRad
          /\ threads' = Goto(t, "return")
    /\ UNCHANGED <<krad_map, radk_map, lock>>
    /\ UNCHANGED <<pc, entry, sub, sub2, tagattr, char, nodes, db, out, files, it, yielded, log, call>>

\* return self.__krad_map.krad: of the KRad object that the field holds now.
Jamdict_krad_return ==
    /\ \E t \in Threads :
          /\ At(t, "return") /\ threads[t].op = "Jamdict.krad"
          /\ threads' = [threads EXCEPT ![t].pc = "done", ![t].ret = [KRad |-> jam_krad]]
    /\ UNCHANGED <<krad_map, radk_map, lock, jam_krad, runs>>
    /\ UNCHANGED <<pc, entry, sub, sub2, tagattr, char, nodes, db, out, files, it, yielded, log, call>>

\* KRad.krad: if self.__krad_map is None; KRad.radk: if self.__radk_map is None
KRad_test ==
    /\ \E t \in Threads :
          /\ At(t, "test") /\ threads[t].op \in {"KRad.krad", "KRad.radk"}
          /\ LET m == IF threads[t].op = "KRad.krad" THEN krad_map ELSE radk_map
             IN  threads' = Goto(t, IF m = NoObj THEN "lock" ELSE "return")
    /\ UNCHANGED <<krad_map, radk_map, lock, jam_krad, runs>>
    /\ UNCHANGED <<pc, entry, sub, sub2, tagattr, char, nodes, db, out, files, it, yielded, log, call>>

\* _build_krad_map: with self.lock, and the lines are read.
build_lock ==
    /\ \E t \in Threads :
          /\ At(t, "lock")
          /\ lock = 0
          /\ lock' = t
          /\ runs' = [runs EXCEPT !.build = @ + 1]
          /\ threads' = Goto(t, "krad_map")
    /\ UNCHANGED <<krad_map, radk_map, jam_krad>>
    /\ UNCHANGED <<pc, entry, sub, sub2, tagattr, char, nodes, db, out, files, it, yielded, log, call>>

\* self.__krad_map = {}
build_new_krad_map ==
    /\ \E t \in Threads :
          /\ At(t, "krad_map")
          /\ krad_map' = EmptyDict
          /\ threads' = Goto(t, "radk_map")
    /\ UNCHANGED <<radk_map, lock, jam_krad, runs>>
    /\ UNCHANGED <<pc, entry, sub, sub2, tagattr, char, nodes, db, out, files, it, yielded, log, call>>

\* self.__radk_map = dd(set)
build_new_radk_map ==
    /\ \E t \in Threads :
          /\ At(t, "radk_map")
          /\ radk_map' = EmptyDict
          /\ threads' = [threads EXCEPT ![t].pc = "line", ![t].i = 1]
    /\ UNCHANGED <<krad_map, lock, jam_krad, runs>>
    /\ UNCHANGED <<pc, entry, sub, sub2, tagattr, char, nodes, db, out, files, it, yielded, log, call>>

\* for line in lines: one round.
build_line ==
    /\ \E t \in Threads :
          /\ At(t, "line")
          /\ threads[t].i <= Len(files.kradfile)
          /\ LET maps == AddLine([krad |-> krad_map, radk |-> radk_map],
                                 files.kradfile[threads[t].i])
             IN  krad_map' = maps.krad /\ radk_map' = maps.radk
          /\ threads' = [threads EXCEPT ![t].i = @ + 1]
    /\ UNCHANGED <<lock, jam_krad, runs>>
    /\ UNCHANGED <<pc, entry, sub, sub2, tagattr, char, nodes, db, out, files, it, yielded, log, call>>

\* The end of the loop and of the with block: the lock is released.
build_unlock ==
    /\ \E t \in Threads :
          /\ At(t, "line")
          /\ threads[t].i > Len(files.kradfile)
          /\ lock' = 0
          /\ threads' = Goto(t, "return")
    /\ UNCHANGED <<krad_map, radk_map, jam_krad, runs>>
    /\ UNCHANGED <<pc, entry, sub, sub2, tagattr, char, nodes, db, out, files, it, yielded, log, call>>

\* return self.__krad_map / return self.__radk_map: the caller has the map
\* as it is now.
KRad_return ==
    /\ \E t \in Threads :
          /\ At(t, "return") /\ threads[t].op \in {"KRad.krad", "KRad.radk"}
          /\ threads' = [threads EXCEPT
                ![t].pc = "done",
                ![t].ret = IF threads[t].op = "KRad.krad" THEN krad_map ELSE radk_map]
    /\ UNCHANGED <<krad_map, radk_map, lock, jam_krad, runs>>
    /\ UNCHANGED <<pc, entry, sub, sub2, tagattr, char, nodes, db, out, files, it, yielded, log, call>>

InitThreads ==
    /\ pc = "threads"
    /\ entry = NoObj
    /\ sub = NoObj
    /\ sub2 = NoObj
    /\ tagattr = "absent"
    /\ char = NoObj
    /\ nodes = 0
    /\ db = EmptyDB
    /\ out = NoObj
    /\ files \in {[kradfile |-> t] : t \in KradTexts}
    /\ krad_map = NoObj
    /\ radk_map = NoObj
    /\ log = {}
    /\ call = [op |-> "none"]
    /\ it = NoObj
    /\ yielded = NoObj
    /\ threads = [t \in Threads |-> [pc |-> "idle", op |-> "", i |-> 0, ret |-> NoObj]]
    /\ lock = 0
    /\ jam_krad = 0
    /\ runs = [KRad |-> 0, build |-> 0]

NextThreads ==
    \/ thread_access
    \/ Jamdict_krad_test \/ Jamdict_krad_new \/ Jamdict_krad_return
    \/ KRad_test \/ build_lock \/ build_new_krad_map \/ build_new_radk_map
    \/ build_line \/ build_unlock \/ KRad_return

\* Threads that read the lazy properties of one Jamdict and one KRad at the
\* same time.
SpecThreads == InitThreads /\ [][NextThreads]_vars

-----------------------------------------------------------------------------
(* Transport forms *)

\* KanjiForm.to_json, KanaForm.to_json: a key left out for an empty list is
\* the empty list here.
KanjiJson(k) == [text |-> k.text, info |-> k.info, pri |-> k.pri]
KanaJson(k) ==
    [text |-> k.text, nokanji |-> PyNum(k.nokanji), restr |-> k.restr, info |-> k.info,
     pri |-> k.pri]

\* Sense.to_json and Translation.to_json: examples is not part of it.
SenseJson(s) ==
    [stagk |-> s.stagk, stagr |-> s.stagr, pos |-> s.pos, xref |-> s.xref,
     antonym |-> s.antonym, field |-> s.field, misc |-> s.misc, SenseInfo |-> s.info,
     SenseSource |-> s.lsource, dialect |-> s.dialect, SenseGloss |-> s.gloss,
     name_type |-> IF IsTranslation(s) THEN <<s.name_type>> ELSE <<>>]

\* JMDEntry.to_json, the identifier in numeric form.
EntryJson(e) ==
    [idseq |-> Affinity(e.idseq),
     kanji |-> [i \in 1..Len(e.kanji_forms) |-> KanjiJson(e.kanji_forms[i])],
     kana |-> [i \in 1..Len(e.kana_forms) |-> KanaJson(e.kana_forms[i])],
     senses |-> [i \in 1..Len(e.senses) |-> SenseJson(e.senses[i])],
     info |-> e.info]

\* Equality of two entries field by field, with Python's == on the values.
EntryEq(a, b) ==
    /\ PyEq(a.idseq, b.idseq)
    /\ a.kanji_forms = b.kanji_forms
    /\ Len(a.kana_forms) = Len(b.kana_forms)
    /\ \A i \in 1..Len(a.kana_forms) :
          /\ a.kana_forms[i].text = b.kana_forms[i].text
          /\ PyEq(a.kana_forms[i].nokanji, b.kana_forms[i].nokanji)
          /\ a.kana_forms[i].restr = b.kana_forms[i].restr
          /\ a.kana_forms[i].info = b.kana_forms[i].info
          /\ a.kana_forms[i].pri = b.kana_forms[i].pri
    /\ a.info = b.info
    /\ a.senses = b.senses

IsWordEntry(e) == \A i \in 1..Len(e.senses) : ~IsTranslation(e.senses[i])
IsNameEntry(e) == e.info = <<>> /\ \A i \in 1..Len(e.senses) : IsTranslation(e.senses[i])

-----------------------------------------------------------------------------
(* What the claims about lookup and search speak of *)

\* The identifiers, in numeric form, of the entries of a result.
Ids(entries) == {Affinity(entries[i].idseq) : i \in 1..Len(entries)}

\* A result names every entry once.
NoRepeat(entries) == Len(entries) = Cardinality(Ids(entries))

\* The query is id# followed by the digits of a number, and that number.
IsIdForm(query) ==
    /\ StartsWith(query, <<"i", "d", "#">>)
    /\ Len(query) > 3
    /\ \A i \in 4..Len(query) : IsDigit(query[i])
IdOf(query) == PyInt(DigitsVal(SubSeq(query, 4, Len(query))))

Has(query, c) == \E i \in 1..Len(query) : query[i] = c

\* Pattern matching as the specification words it: % is any run of
\* characters, ? and _ are one character, any other character is itself.
RECURSIVE Glob(_, _)
Glob(pattern, text) ==
    IF pattern = <<>> THEN text = <<>>
    ELSE IF Head(pattern) = "%"
         THEN Glob(Tail(pattern), text) \/ (text # <<>> /\ Glob(pattern, Tail(text)))
         ELSE /\ text # <<>>
              /\ Head(pattern) \in {"_", "?"} \/ Head(pattern) = Head(text)
              /\ Glob(Tail(pattern), Tail(text))

\* The same, ASCII letters matching without regard to case.
RECURSIVE GlobFold(_, _)
GlobFold(pattern, text) ==
    IF pattern = <<>> THEN text = <<>>
    ELSE IF Head(pattern) = "%"
         THEN GlobFold(Tail(pattern), text) \/ (text # <<>> /\ GlobFold(pattern, Tail(text)))
         ELSE /\ text # <<>>
              /\ Head(pattern) = "_" \/ Fold(Head(pattern)) = Fold(Head(text))
              /\ GlobFold(Tail(pattern), Tail(text))

\* The texts of the kanji forms, kana forms and glosses that the store
\* holds for a word entry.
WordTexts(d, id) ==
    {d.Kanji[i].text : i \in {j \in 1..Len(d.Kanji) : d.Kanji[j].idseq = id}}
    \cup {d.Kana[i].text : i \in {j \in 1..Len(d.Kana) : d.Kana[j].idseq = id}}
    \cup {d.SenseGloss[i].text : i \in {j \in 1..Len(d.SenseGloss) :
             \E s \in 1..Len(d.Sense) :
                d.Sense[s].idseq = id /\ d.Sense[s].ID = d.SenseGloss[j].sid}}

\* The texts of the forms, glosses and name types that the store holds for
\* a name entry.
NameTexts(d, id) ==
    {d.NEKanji[i].text : i \in {j \in 1..Len(d.NEKanji) : d.NEKanji[j].idseq = id}}
    \cup {d.NEKana[i].text : i \in {j \in 1..Len(d.NEKana) : d.NEKana[j].idseq = id}}
    \cup {d.NETransGloss[i].text : i \in {j \in 1..Len(d.NETransGloss) :
             \E s \in 1..Len(d.NETranslation) :
                d.NETranslation[s].idseq = id /\ d.NETranslation[s].ID = d.NETransGloss[j].tid}}
    \cup {CodeText(d.NETransType[i].text) : i \in {j \in 1..Len(d.NETransType) :
             \E s \in 1..Len(d.NETranslation) :
                d.NETranslation[s].idseq = id /\ d.NETranslation[s].ID = d.NETransType[j].tid}}

\* The identifiers of the word entries and of the name entries of the store.
WordIds(d) == {d.Entry[i].idseq : i \in 1..Len(d.Entry)}
NameIds(d) == {d.NEEntry[i].idseq : i \in 1..Len(d.NEEntry)}

\* The pos filter is a collection, neither None nor a bare string.
IsPosList(pos) == "list" \in DOMAIN pos

\* The identifiers of the word entries of the store with a sense tagged
\* with the part of speech.
TaggedIds(d, tag) ==
    {d.Sense[s].idseq : s \in {j \in 1..Len(d.Sense) :
        \E k \in 1..Len(d.pos) : d.pos[k].sid = d.Sense[j].ID /\ d.pos[k].text = tag}}

\* The store of the Jamdict carries the marker of the name dictionary: a
\* meta row with the key jmnedict.version and a non-empty value.
NameMarker(jam, d) ==
    /\ jam.db_file # NoObj
    /\ \E i \in 1..Len(d.meta) : d.meta[i].key = "jmnedict.version" /\ d.meta[i].value # ""

\* The literals that the character backend of the Jamdict has a record of.
KnownLiterals(jam, d, xml) ==
    IF jam.db_file # NoObj THEN {d.character[i].literal.str : i \in 1..Len(d.character)}
    ELSE {xml.kd2[i].literal.str : i \in 1..Len(xml.kd2)}

\* The characters that a lookup has to resolve: those of the query and,
\* unless it is strict, those of the kanji forms of the entries that are no
\* kana.
ToResolve(query, entries, strict_lookup) ==
    Range(query) \cup
    (IF strict_lookup THEN {}
     ELSE UNION {UNION {Range(entries[i].kanji_forms[k].text) \ (HIRAGANA \cup KATAKANA) :
                           k \in 1..Len(entries[i].kanji_forms)} :
                    i \in 1..Len(entries)})

\* The store holds the documents.
Imported == db = ImportAll(EmptyDB, files)

-----------------------------------------------------------------------------
(* Claims *)

\* C1: a parsed word entry that is inserted into a store that did not hold
\* its identifier is read back by get_entry equal in every field, lists in
\* the same order.
C1_RoundTripEntry ==
    (pc = "read" /\ IsWordEntry(entry)
        /\ Len(Where(db.Entry, "idseq", Affinity(entry.idseq))) = 1)
    => EntryEq(out, entry)

C3_RoundTripName ==
    (pc = "ne_read" /\ IsNameEntry(entry)
        /\ Len(Where(db.NEEntry, "idseq", Affinity(entry.idseq))) = 1)
    => EntryJson(out) = EntryJson(entry)

\* C4: with a backend available, lookup raises ValueError exactly when the
\* query is empty or "%" and no pos filter is given (pos None or empty); with
\* a non-empty pos it does not raise it, and the rejected lookup has no result.
C4_EmptyQueryRejected ==
    (call.op = "lookup" /\ is_available(call.jam)) =>
        ((out.error = "ValueError") <=>
            (/\ call.query = <<>> \/ call.query = <<"%">>
             /\ call.pos = NoObj \/ call.pos = PyList(<<>>)))

\* An empty query without pos was rejected by the Jamdict over the filled
\* store.
C4_Witness ==
    /\ call.op = "lookup"
    /\ call.jam = JamDB
    /\ Imported
    /\ call.query = <<>>
    /\ call.pos = PyList(<<>>)
    /\ out.error = "ValueError"

\* C5: with character lookup enabled, the chars of a non-strict lookup hold
\* the record of every character of every kanji form of every entry found
\* that is no kana and has a record in the character backend; the chars of
\* a strict lookup are records of characters of the query.
C5_CharDiscovery ==
    (call.op = "lookup" /\ out.error = "" /\ call.lookup_chars) =>
        /\ ~call.strict_lookup =>
              \A i \in 1..Len(out.entries) :
                 \A k \in 1..Len(out.entries[i].kanji_forms) :
                    \A j \in 1..Len(out.entries[i].kanji_forms[k].text) :
                       LET c == out.entries[i].kanji_forms[k].text[j]
                           record == get_char(call.jam, db, files, c)
                       IN  (c \notin HIRAGANA \cup KATAKANA /\ record # NoObj)
                              => \E n \in 1..Len(out.chars) : out.chars[n] = record
        /\ call.strict_lookup =>
              \A n \in 1..Len(out.chars) : Has(call.query, out.chars[n].literal.str)

\* A non-strict lookup of a reading returned the records of the two kanji
\* of the entry found, none of which is in the query.
C5_Witness ==
    /\ call.op = "lookup"
    /\ out.error = ""
    /\ call.lookup_chars
    /\ ~call.strict_lookup
    /\ Len(out.entries) = 1
    /\ Len(out.chars) = 2
    /\ \A n \in 1..Len(out.chars) : ~Has(call.query, out.chars[n].literal.str)

\* C6: over the same documents and for the same call, the lookup of the
\* Jamdict over the store that holds the documents and the lookup of the
\* Jamdict over the XML documents return the same word entries and the same
\* characters.
C6_BackendAgreement ==
    (call.op = "lookup" /\ call.jam = JamDB /\ Imported /\ out.error = "") =>
        \A entries \in LookupEntries(JamXML, db, files, call.query) :
           LET x == Lookup(JamXML, db, files, call, entries)
           IN  /\ x.error = ""
               /\ Ids(x.entries) = Ids(out.entries)
               /\ {x.chars[n].literal : n \in 1..Len(x.chars)}
                     = {out.chars[n].literal : n \in 1..Len(out.chars)}

\* C7: for a query that is no id#N, search returns exactly the entries
\* with a kanji form, kana form or gloss that matches the query: equal to it
\* when the query has no wildcard marker, matching it as a pattern when it
\* has a %, which stands for any run of characters.
C7_TextSearch ==
    (call.op = "search" /\ ~IsIdForm(call.query)
        /\ (Has(call.query, "%") \/ ~(Has(call.query, "_") \/ Has(call.query, "?")))) =>
        /\ NoRepeat(out)
        /\ Ids(out) = {id \in WordIds(db) : \E t \in WordTexts(db, id) :
                          IF Has(call.query, "%") THEN Glob(call.query, t) ELSE t = call.query}

\* C7, amended: the same, the pattern of a query with % matching ASCII
\* letters without regard to case, for queries without ? and @.
C7_TextSearchFold ==
    (call.op = "search" /\ ~IsIdForm(call.query)
        /\ ~Has(call.query, "?") /\ ~Has(call.query, "@")
        /\ (Has(call.query, "%") \/ ~Has(call.query, "_"))) =>
        /\ NoRepeat(out)
        /\ Ids(out) = {id \in WordIds(db) : \E t \in WordTexts(db, id) :
                          IF Has(call.query, "%") THEN GlobFold(call.query, t)
                          ELSE t = call.query}

\* A pattern with % found two entries of the filled store.
C7_Witness ==
    /\ call.op = "search"
    /\ call.query = <<"o", "%", "ge">>
    /\ Len(out) = 2

\* C8: in search and search_ne each ? and each _ of the query stands for
\* one character: the result is exactly the entries with a text that
\* matches the query so read, the same for ? as for _.
C8_SingleCharWildcard ==
    (call.op \in {"search", "search_ne"} /\ ~IsIdForm(call.query)
        /\ (Has(call.query, "?") \/ Has(call.query, "_"))) =>
        Ids(out) = IF call.op = "search"
                   THEN {id \in WordIds(db) : \E t \in WordTexts(db, id) : Glob(call.query, t)}
                   ELSE {id \in NameIds(db) : \E t \in NameTexts(db, id) : Glob(call.query, t)}

\* C9: a query id# followed by the digits of N returns exactly the entry
\* with the identifier N, or nothing when there is none, whatever the texts
\* of the entries: in search, in search_ne and in JMDictXML.lookup.
C9_LookupById ==
    (call.op \in {"search", "search_ne", "xml_lookup"} /\ IsIdForm(call.query)) =>
        /\ NoRepeat(out)
        /\ Ids(out) = CASE call.op = "search" -> {id \in WordIds(db) : id = IdOf(call.query)}
                        [] call.op = "search_ne" -> {id \in NameIds(db) : id = IdOf(call.query)}
                        [] OTHER -> {id \in Ids(files.jmd) : id = IdOf(call.query)}

\* C10: every entry that lookup returns for a non-empty pos filter has a
\* sense with one of the filter's tags in its pos list.
C10_PosFilter ==
    (call.op = "lookup" /\ out.error = "" /\ IsPosList(call.pos) /\ call.pos.list # <<>>) =>
        \A i \in 1..Len(out.entries) :
           \E s \in 1..Len(out.entries[i].senses) :
              Range(out.entries[i].senses[s].pos) \cap Range(call.pos.list) # {}

\* C11: over the filled store, lookup("", pos=[a]) returns exactly the
\* entries with a sense tagged a, and the entries of lookup(q, pos=[a, b])
\* are those of lookup(q, pos=[a]) together with those of lookup(q, pos=[b]).
C11_PosAnyOf ==
    (call.op = "lookup" /\ call.jam = JamDB /\ Imported /\ IsPosList(call.pos)) =>
        /\ (call.query = <<>> /\ Len(call.pos.list) = 1) =>
              /\ out.error = ""
              /\ Ids(out.entries) = TaggedIds(db, call.pos.list[1])
        /\ Len(call.pos.list) = 2 =>
              LET one(tag) == Lookup(call.jam, db, files,
                                     [call EXCEPT !.pos = PyList(<<tag>>)],
                                     Search(db, call.query))
              IN  Ids(out.entries) = Ids(one(call.pos.list[1]).entries)
                                        \cup Ids(one(call.pos.list[2]).entries)

\* C12: a lookup whose pos is a bare string is not rejected, returns the
\* entries of the lookup with the list of that one tag, and is flagged with
\* the warning "POS filter should be a collection, not a string".
C12_BareStringPos ==
    (call.op = "lookup" /\ call.jam = JamDB /\ IsStr(call.pos)) =>
        /\ out.error = ""
        /\ out.entries = Lookup(call.jam, db, files,
                                [call EXCEPT !.pos = PyList(call.pos.str)],
                                Search(db, call.query)).entries
        /\ "POS filter should be a collection, not a string" \in log

\* C13: the names of a lookup are those of search_ne when lookup_ne is set
\* and the store carries the marker of the name dictionary, and empty in
\* every other case; a store into which no name dictionary was imported
\* does not carry the marker.
C13_NameGating ==
    /\ (call.op = "lookup" /\ out.error = "") =>
          out.names = IF call.lookup_ne /\ NameMarker(call.jam, db)
                      THEN SearchNe(db, call.query) ELSE <<>>
    /\ (call.op = "lookup" /\ call.jam = JamDB /\ Len(db.NEEntry) = 0) =>
          ~NameMarker(call.jam, db)

C15_KradForward ==
    krad_map # NoObj =>
        \A c \in DOMAIN krad_map.dict :
           \A i \in 1..Len(krad_map.dict[c]) :
              LET r == krad_map.dict[c][i]
              IN  r \in DOMAIN radk_map.dict /\ c \in radk_map.dict[r]

\* The maps are built from a resource that names two characters with the
\* same component.
C15_Witness ==
    /\ krad_map # NoObj
    /\ <<"a">> \in DOMAIN radk_map.dict
    /\ radk_map.dict[<<"a">>] = {<<"X">>, <<"Y">>}
    /\ krad_map.dict[<<"X">>] = << <<"a">>, <<"b">> >>

\* C16: once the maps are built, every component r of radk and every
\* character c of radk[r] have r in krad[c].
C16_RadkIsTranspose ==
    radk_map # NoObj =>
        \A r \in DOMAIN radk_map.dict :
           \A c \in radk_map.dict[r] :
              c \in DOMAIN krad_map.dict /\ r \in Range(krad_map.dict[c])

\* C17: the components of a character that the resource does not list are
\* the empty list, the characters of a component that it does not list are
\* the empty set, neither raises, and the maps stay what the build made
\* them.
C17_UnknownKeys ==
    /\ (call.op = "krad" /\ call.key \notin DOMAIN build_krad_map(files.kradfile).krad.dict)
          => out = [list |-> <<>>]
    /\ (call.op = "radk" /\ call.key \notin DOMAIN build_krad_map(files.kradfile).radk.dict)
          => out = [set |-> {}]
    /\ krad_map # NoObj =>
          /\ krad_map = build_krad_map(files.kradfile).krad
          /\ radk_map = build_krad_map(files.kradfile).radk

\* C18: once a child with an unknown tag was read, at whatever level of the
\* character element, parsing has failed: it neither goes on nor returns a
\* character.
C18_UnknownTagFatal ==
    (log \cap {"Unknown tag in child", "Unknown tag"} # {}) => pc = "error"

\* C19: once a second keb was read in a k_ele, or a second reb in an r_ele,
\* parsing has failed: it neither goes on nor returns an entry.
C19_DuplicateTagFatal ==
    ("WARNING: duplicated text for k_ele" \in log) => pc = "error"

\* C20: the lang of every SenseGloss and every LSource that the parser has
\* built for the sense or the translation at hand is "eng" or the value of
\* an xml:lang attribute, never the empty text of an absent attribute.
C20_LangDefault ==
    pc \in {"sense", "trans"} =>
        /\ \A i \in 1..Len(sub.gloss) : sub.gloss[i].lang \in {"eng"} \cup (LangAttr \ {"absent"})
        /\ \A i \in 1..Len(sub.lsource) :
              sub.lsource[i].lang \in {"eng"} \cup (LangAttr \ {"absent"})


\* The store paths a lookup call needs that are configured but are no file.
StoresUnavailable(jam, a) ==
    {p \in {jam.db_file} \cup (IF a.lookup_chars THEN {jam.kd2_file} ELSE {})
                         \cup (IF a.lookup_ne THEN {jam.jmnedict_file} ELSE {}) :
        p # NoObj /\ ~isfile(jam, p)}

\* C21: when a store that the lookup needs is configured but cannot be
\* opened, lookup reports a failure to its caller and never returns a
\* result with empty entries, chars and names.
C21_StoreUnavailable ==
    (call.op = "lookup" /\ StoresUnavailable(call.jam, call) # {}) => out.error # ""

\* C22: if import_data fails part-way, the store is left in its pre-import
\* state: no row of any record of that import is present in the reused
\* context.
C22_AllOrNothingImport ==
    call.op = "import_data" => db = EmptyDB

\* C23: each sequence of the result of lookup_iter yields every element at
\* most once over its whole lifetime: a second loop over a sequence that was
\* consumed, fully or partly, yields none of the elements already produced.
C23_SinglePass ==
    pc = "iter" =>
        \A w \in SeqNames :
           \A i, j \in 1..Len(yielded[w].items) :
              i # j => yielded[w].items[i] # yielded[w].items[j]

\* A second loop over a partly consumed sequence has produced an element.
C23_Witness ==
    /\ pc = "iter"
    /\ it # NoObj
    /\ out[it.over].gen
    /\ yielded[it.over].loops = 2
    /\ it.at = 1
    /\ Len(yielded[it.over].items) = 2

\* The readings of a group by kind: the on-readings, then the kun-readings,
\* then the readings of other kinds, each kind in its original order.
ByKind(readings) ==
    SelectSeq(readings, LAMBDA r : r.r_type = "ja_on")
    \o SelectSeq(readings, LAMBDA r : r.r_type = "ja_kun")
    \o SelectSeq(readings, LAMBDA r : r.r_type \notin {"ja_on", "ja_kun"})

\* C24: for every reading/meaning group of a character read back, the
\* readings are those of the inserted group with all on-readings before all
\* kun-readings before all other readings, the original order kept inside
\* each kind.
C24_ReadingOrder ==
    pc = "char_read" =>
        /\ Len(out.rm_groups) = Len(char.rm_groups)
        /\ \A g \in 1..Len(out.rm_groups) :
              out.rm_groups[g].readings = ByKind(char.rm_groups[g].readings)

\* C29: insert_char leaves the character passed to it, and every child
\* object of it, unchanged: no field has another value after the call than
\* before.
C29_InsertKeepsInput ==
    call.op = "insert_char" => char = call.c

\* C25: when several threads read krad or radk of one KRad for the first
\* time concurrently, every access returns the completed mapping: no thread
\* gets a forward or inverse map that lacks entries of the resource.
C25_NoPartialIndex ==
    pc = "threads" =>
        \A t \in Threads :
           /\ (At(t, "done") /\ threads[t].op = "KRad.krad") =>
                 threads[t].ret = build_krad_map(files.kradfile).krad
           /\ (At(t, "done") /\ threads[t].op = "KRad.radk") =>
                 threads[t].ret = build_krad_map(files.kradfile).radk

\* C26: each lazy one-time initializer runs its body at most once (the
\* creation of the KRad object behind Jamdict.krad, KRad's own build), and
\* all callers receive the same object.
C26_OneInitializer ==
    pc = "threads" =>
        /\ runs.KRad <= 1
        /\ runs.build <= 1
        /\ \A t, u \in Threads :
              (At(t, "done") /\ At(u, "done") /\ threads[t].op = "Jamdict.krad"
                 /\ threads[u].op = "Jamdict.krad") => threads[t].ret = threads[u].ret

\* The characters in the order lookup meets them: those of the query, then,
\* unless the lookup is strict, those of the kanji forms of the entries that
\* are no kana, entry by entry and form by form.
Met(query, entries, strict_lookup) ==
    query \o
    (IF strict_lookup THEN <<>>
     ELSE SelectSeq(Concat([i \in 1..Len(entries) |->
                              Concat([k \in 1..Len(entries[i].kanji_forms) |->
                                        entries[i].kanji_forms[k].text])]),
                    LAMBDA c : c \notin HIRAGANA /\ c \notin KATAKANA))

\* Where a character is met first.
FirstMet(s, c) == CHOOSE i \in 1..Len(s) : s[i] = c /\ \A j \in 1..(i - 1) : s[j] # c

\* C27: the chars of a lookup result are in the order in which lookup meets
\* their literals, the characters of the query first, then (non-strict only)
\* the non-kana characters of the kanji forms of the entries, and no
\* character is in the list twice.
C27_CharOrder ==
    (call.op = "lookup" /\ out.error = "") =>
        LET met == Met(call.query, out.entries, call.strict_lookup)
            lit == [i \in 1..Len(out.chars) |-> out.chars[i].literal.str]
        IN  /\ \A i \in 1..Len(lit) : lit[i] \in Range(met)
            /\ \A i, j \in 1..Len(lit) :
                  i < j => FirstMet(met, lit[i]) < FirstMet(met, lit[j])

\* A character of the query is followed by one that only a kanji form of a
\* matched entry has, against the order of the store.
C27_Witness ==
    /\ call.op = "lookup"
    /\ out.error = ""
    /\ Len(out.chars) = 2
    /\ out.chars[1].literal.str \in Range(call.query)
    /\ out.chars[2].literal.str \notin Range(call.query)
    /\ out.chars[1].ID.int > out.chars[2].ID.int

\* Where the entry with an identifier is in the document.
DocIndex(doc, idseq) ==
    CHOOSE k \in 1..Len(doc) : Affinity(doc[k].idseq) = Affinity(idseq)

\* The entries of a result are in the order of the document.
InDocOrder(entries, doc) ==
    \A i, j \in 1..Len(entries) :
       i < j => DocIndex(doc, entries[i].idseq) < DocIndex(doc, entries[j].idseq)

\* C28: the entries and the names of a lookup are in the order in which the
\* records occur in the source document, for the store and for the index of
\* the document, also when several entries share the queried form.
C28_EntryOrder ==
    /\ (call.op = "lookup" /\ out.error = "") =>
          /\ InDocOrder(out.entries, files.jmd)
          /\ InDocOrder(out.names, files.jmne)
    /\ call.op = "xml_lookup" => InDocOrder(out, files.jmd)

\* C30: a mapper operation called without a context gives the same outcome
\* as the same call with a freshly opened context on the same store: on the
\* store that holds the documents search_ne(q) returns what search_ne(q, ctx) returns, the matches of the
\* name tables.
C30_ContextTransparent ==
    (call.op = "search_ne" /\ Imported) => out = SearchNe(db, call.query)
====
